---- MODULE Spec2Model ----
(***************************************************************************)
(* Model of agentic-oracle: the rate-limited FMP client (tools/fmp_tool.py) *)
(* with its four normalizers, and the tolerant structured-text extractor   *)
(* (tools/helper_functions.py).                                            *)
(*                                                                         *)
(* Python values are tagged records [t |-> <type>, v |-> <payload>].       *)
(* A Python str is a sequence of chunks: a chunk is either one character   *)
(* ("{", "'", " ", "a", ...) or an opaque run of text taken from a literal *)
(* of the source ("Invalid ticker symbol").                                *)
(***************************************************************************)
EXTENDS Integers, Sequences, FiniteSets, TLC

VARIABLES
    max_rpm,        \* FMPTool.max_rpm
    request_times,  \* FMPTool.request_times (the RequestWindow)
    now,            \* the wall clock read by time.time(), in seconds
    issued,         \* history: timestamps recorded for every network request
    sent,           \* history: number of requests recorded during the current public call
    pc,             \* position of the caller inside the client
    cur,            \* _make_request's local current_time
    op,             \* the public method being executed and its ticker argument
    results,        \* values returned so far by the sub-requests of op
    outcomes,       \* history: the outcome of requests.get for each of them
    ret,            \* value returned by the last completed public call
    wait_time,      \* _make_request's local wait_time
    snapshot,       \* the list a prune is iterating over, read from request_times
    other,          \* the locals of a second caller of the same client, not running
    overlapped,     \* history: a caller was preempted between window check and append
    text,           \* argument handed to extract_json_like
    out,            \* value returned by extract_json_like
    record,         \* history: the record the text was written from, if any
    agent_results,  \* argument results handed to extract_agent_outputs
    agent_outputs,  \* the three values returned by extract_agent_outputs
    stage,          \* position of run_company_analysis
    run,            \* arguments and locals of run_company_analysis
    report,         \* value returned by run_company_analysis
    trace,          \* history: the stages the run has completed
    judge_results,  \* argument handed to process_judge_output
    judge_display   \* what process_judge_output has presented

limiterVars == <<max_rpm, request_times>>
envVars == <<now, issued, sent>>
callVars == <<pc, cur, wait_time, op, results, outcomes, ret>>
textVars == <<text, out, record>>
aggVars == <<agent_results, agent_outputs>>
raceVars == <<snapshot, other, overlapped>>
clientVars == <<limiterVars, envVars, callVars, raceVars>>
runVars == <<stage, run, report, trace>>
judgeVars == <<judge_results, judge_display>>
helperVars == <<textVars, aggVars, runVars, judgeVars>>
vars == <<clientVars, raceVars, helperVars>>

----------------------------------------------------------------------------
(* Bounds of the model *)

MaxRpm == 2        \* max_rpm ranges over 0..MaxRpm
ClockStep == 20    \* granularity of the clock, in seconds
MaxGap == 3        \* the clock advances by 1..MaxGap steps at a time
MaxTime == 100     \* no call is started and no idle time passes after MaxTime
MaxTickerLen == 2  \* ticker arguments have at most MaxTickerLen characters
MaxTextLen == 3    \* free texts handed to the extractor have at most MaxTextLen characters
MaxRecordKeys == 2 \* serialized records have at most MaxRecordKeys keys
MaxResults == 2    \* result lists and combined texts have at most MaxResults parts
MaxCalls == 3      \* two callers together record at most MaxCalls requests

(* Program constants *)

WINDOW == 60       \* the trailing interval of the rate limiter, in seconds

----------------------------------------------------------------------------
(* Python values *)

PyNone == [t |-> "none"]
PyNum(n) == [t |-> "num", v |-> n]
PyStr(s) == [t |-> "str", v |-> s]
PyList(s) == [t |-> "list", v |-> s]
PyDict(f) == [t |-> "dict", v |-> f]
PyRaise(e) == [t |-> "raise", v |-> e]

IsDict(x) == x.t = "dict"
IsList(x) == x.t = "list"
IsStr(x) == x.t = "str"
Raised(x) == x.t = "raise"

\* Python truthiness (bool(x))
Truthy(x) ==
    CASE x.t = "none" -> FALSE
      [] x.t = "num" -> x.v # 0
      [] x.t = "str" -> Len(x.v) > 0
      [] x.t = "list" -> Len(x.v) > 0
      [] x.t = "dict" -> DOMAIN x.v # {}
      [] x.t = "bool" -> x.v
      [] OTHER -> TRUE

\* key in d, for a dict d
HasKey(d, k) == IsDict(d) /\ k \in DOMAIN d.v

\* d.get(k, default), for the mapping f of a dict
Get(f, k, default) == IF k \in DOMAIN f THEN f[k] ELSE default

\* the mapping with no key
EmptyMap == [k \in {} |-> PyNone]

\* the value of ret while a call is in progress
Pending == [t |-> "pending"]

----------------------------------------------------------------------------
(* FMPTool._make_request: the sliding-window rate limiter *)

\* the window pruned with <= in place of <
PruneInclusive(times, current_time) ==
    SelectSeq(times, LAMBDA t : current_time - t <= WINDOW)

\* [t for t in self.request_times if current_time - t < 60]
Prune(times, current_time) ==
    SelectSeq(times, LAMBDA t : current_time - t < WINDOW)

\* mutant: the limit test written with > instead of >=
LimitReachedOffByOne == Len(request_times) > max_rpm

\* len(self.request_times) >= self.max_rpm
LimitReached == Len(request_times) >= max_rpm

\* 60 - (current_time - self.request_times[0])
WaitTime(times, current_time) == WINDOW - (current_time - times[1])

\* lines 45-55: read the clock and prune the window
MR_Enter ==
    /\ pc = "mr_enter"
    /\ cur' = now
    /\ request_times' = Prune(request_times, now)
    /\ pc' = "mr_test"
    /\ UNCHANGED <<max_rpm, envVars, wait_time, op, results, outcomes, ret, raceVars, helperVars>>

\* lines 58-60: the window is full, and request_times[0] of an empty window
\* raises IndexError, which no handler of the client catches
MR_TestRaise ==
    /\ pc = "mr_test"
    /\ LimitReached
    /\ request_times = <<>>
    /\ ret' = PyRaise("IndexError")
    /\ pc' = "idle"
    /\ UNCHANGED <<limiterVars, envVars, cur, wait_time, op, results, outcomes, raceVars, helperVars>>

\* lines 58-60: the window is full and the oldest entry decides the wait
MR_TestWait ==
    /\ pc = "mr_test"
    /\ LimitReached
    /\ request_times # <<>>
    /\ wait_time' = WaitTime(request_times, cur)
    /\ pc' = IF wait_time' > 0 THEN "mr_sleep" ELSE "mr_append"
    /\ UNCHANGED <<limiterVars, envVars, cur, op, results, outcomes, ret, raceVars, helperVars>>

\* line 58: the window has room
MR_TestPass ==
    /\ pc = "mr_test"
    /\ ~LimitReached
    /\ pc' = "mr_append"
    /\ UNCHANGED <<limiterVars, envVars, cur, wait_time, op, results, outcomes, ret, raceVars, helperVars>>

\* mutant: the caller goes on without sleeping
MR_WakeNoSleep ==
    /\ pc = "mr_sleep"
    /\ cur' = now
    /\ request_times' = Prune(request_times, now)
    /\ pc' = "mr_append"
    /\ UNCHANGED <<max_rpm, envVars, wait_time, op, results, outcomes, ret, raceVars, helperVars>>

\* lines 62-66: time.sleep(wait_time) returns once wait_time has passed;
\* the clock is read again and the window pruned again
MR_Wake ==
    /\ pc = "mr_sleep"
    /\ now >= cur + wait_time
    /\ cur' = now
    /\ request_times' = Prune(request_times, now)
    /\ pc' = "mr_append"
    /\ UNCHANGED <<max_rpm, envVars, wait_time, op, results, outcomes, ret, raceVars, helperVars>>

\* line 73: the timestamp of the request is recorded
MR_Append ==
    /\ pc = "mr_append"
    /\ request_times' = Append(request_times, cur)
    /\ issued' = Append(issued, cur)
    /\ sent' = sent + 1
    /\ pc' = "mr_net"
    /\ UNCHANGED <<max_rpm, now, cur, wait_time, op, results, outcomes, ret, raceVars, helperVars>>

\* the thread sleeping in time.sleep has not been woken yet
Sleeping == pc = "mr_sleep" /\ now < cur + wait_time

\* the clock advances; past MaxTime only for a sleeping caller
Tick(k) ==
    /\ now + k * ClockStep <= MaxTime \/ Sleeping
    /\ now' = now + k * ClockStep
    /\ UNCHANGED <<limiterVars, issued, sent, callVars, raceVars, helperVars>>

----------------------------------------------------------------------------
(* Python strings *)

\* a str holding the text of one literal of the source
Lit(s) == PyStr(<<s>>)

\* str(x), as an f-string formats x
StrOf(x) ==
    CASE x.t = "str" -> x.v
      [] x.t = "none" -> <<"None">>
      [] OTHER -> <<"<repr>">>

IsSpace(c) == c \in {" ", "\n"}

\* s.strip()
RECURSIVE LStrip(_)
LStrip(s) == IF s # <<>> /\ IsSpace(Head(s)) THEN LStrip(Tail(s)) ELSE s

RECURSIVE RStrip(_)
RStrip(s) ==
    IF s # <<>> /\ IsSpace(s[Len(s)]) THEN RStrip(SubSeq(s, 1, Len(s) - 1)) ELSE s

Strip(s) == RStrip(LStrip(s))

UpperChar(c) ==
    CASE c = "a" -> "A"
      [] c = "b" -> "B"
      [] OTHER -> c

\* s.upper()
Upper(s) == [i \in 1..Len(s) |-> UpperChar(s[i])]

----------------------------------------------------------------------------
(* FMPTool._make_request: the network call and its error handling *)

\* {"error": msg}
ErrorDict(msg) == PyDict([error |-> PyStr(msg)])

\* the text of a caught exception, str(e)
ExcText == <<"<exception>">>

\* data.get("Error Message") or data.get("error")
ProviderError(data) ==
    IF Truthy(Get(data.v, "Error Message", PyNone))
    THEN Get(data.v, "Error Message", PyNone)
    ELSE Get(data.v, "error", PyNone)

\* lines 86-100: the checks on a parsed body
CheckBody(data, endpoint) ==
    IF IsDict(data) /\ Truthy(ProviderError(data))
    THEN ErrorDict(<<"FMP API error: ">> \o StrOf(ProviderError(data)))
    ELSE IF ~Truthy(data)
    THEN ErrorDict(<<"Empty response from FMP API for ">> \o endpoint)
    ELSE data

\* lines 76-125: the value _make_request returns for an outcome of requests.get
MakeRequestResult(o, endpoint) ==
    CASE o.kind = "http" -> ErrorDict(<<"HTTP error: ">> \o ExcText)
      [] o.kind = "timeout" ->
            ErrorDict(<<"Request to ">> \o endpoint \o <<" timed out after 10 seconds">>)
      [] o.kind = "conn" -> ErrorDict(<<"Request error: ">> \o ExcText)
      [] o.kind = "badjson_requests" -> ErrorDict(<<"Request error: ">> \o ExcText)
      [] o.kind = "badjson" -> ErrorDict(<<"Invalid JSON response from FMP API">>)
      [] o.kind = "other" -> ErrorDict(<<"Unexpected error: ">> \o ExcText)
      [] o.kind = "body" -> CheckBody(o.body, endpoint)

\* isinstance(data, dict) and "error" in data
IsError(data) == IsDict(data) /\ "error" \in DOMAIN data.v

----------------------------------------------------------------------------
(* The normalizers *)

\* not ticker or not isinstance(ticker, str)
InvalidTicker(ticker) == ~Truthy(ticker) \/ ~IsStr(ticker)

\* ticker.strip().upper()
NormalizeTicker(ticker) == Upper(Strip(ticker.v))

\* get_company_profile, lines 138-146
ProfileInvalid ==
    PyDict([error |-> Lit("Invalid ticker symbol"),
            name |-> Lit("Unknown"),
            industry |-> Lit("Unknown"),
            sector |-> Lit("Unknown"),
            description |-> Lit("Please provide a valid ticker symbol (e.g., AAPL, MSFT)")])

\* get_company_profile, lines 150-155
ProfileEmpty ==
    PyDict([error |-> Lit("Empty ticker symbol"),
            name |-> Lit("Unknown"),
            description |-> Lit("Please provide a valid ticker symbol")])

\* get_company_profile, lines 161-198
ProfileResult(sym, data) ==
    IF IsError(data)
    THEN PyDict([error |-> data.v.error,
                 name |-> PyStr(sym),
                 industry |-> Lit("Unknown"),
                 sector |-> Lit("Unknown"),
                 description |-> PyStr(<<"Could not retrieve company profile. ">>
                                       \o StrOf(data.v.error))])
    ELSE IF IsList(data) /\ Len(data.v) > 0
    THEN LET profile == data.v[1].v
         IN  PyDict([name |-> Get(profile, "companyName", PyStr(sym)),
                     industry |-> Get(profile, "industry", Lit("Unknown")),
                     sector |-> Get(profile, "sector", Lit("Unknown")),
                     description |-> Get(profile, "description", Lit("No description available")),
                     ceo |-> Get(profile, "ceo", Lit("Unknown")),
                     website |-> Get(profile, "website", Lit("Unknown")),
                     employees |-> Get(profile, "fullTimeEmployees", Lit("Unknown")),
                     exchange |-> Get(profile, "exchange", Lit("Unknown")),
                     marketCap |-> Get(profile, "mktCap", Lit("Unknown")),
                     symbol |-> PyStr(sym)])
    ELSE PyDict([error |-> Lit("No company profile found"),
                 name |-> PyStr(sym),
                 industry |-> Lit("Unknown"),
                 sector |-> Lit("Unknown"),
                 description |-> PyStr(<<"No profile data was found for ">> \o sym
                                       \o <<". This might be an invalid ticker symbol or the company is not covered by the data provider.">>)])

\* get_stock_quote, lines 220-251
QuoteResult(sym, data) ==
    IF IsError(data)
    THEN PyDict([error |-> data.v.error])
    ELSE IF IsList(data) /\ Len(data.v) > 0
    THEN LET quote == data.v[1].v
         IN  PyDict([price |-> Get(quote, "price", PyNone),
                     change |-> Get(quote, "change", PyNone),
                     percentChange |-> Get(quote, "changesPercentage", PyNone),
                     dayLow |-> Get(quote, "dayLow", PyNone),
                     dayHigh |-> Get(quote, "dayHigh", PyNone),
                     yearLow |-> Get(quote, "yearLow", PyNone),
                     yearHigh |-> Get(quote, "yearHigh", PyNone),
                     marketCap |-> Get(quote, "marketCap", PyNone),
                     volume |-> Get(quote, "volume", PyNone),
                     avgVolume |-> Get(quote, "avgVolume", PyNone),
                     pe |-> Get(quote, "pe", PyNone),
                     eps |-> Get(quote, "eps", PyNone),
                     symbol |-> PyStr(sym)])
    ELSE PyDict([error |-> Lit("No stock quote found"), symbol |-> PyStr(sym)])

\* mutant: the length test written with > 1
FirstOrEmptyOffByOne(x) == IF IsList(x) /\ Len(x.v) > 1 THEN x.v[1].v ELSE EmptyMap

\* x[0] if isinstance(x, list) and len(x) > 0 else {}
FirstOrEmpty(x) == IF IsList(x) /\ Len(x.v) > 0 THEN x.v[1].v ELSE EmptyMap

\* mutant: one failed sub-request is reported as total failure
FinancialsResultAnyFailure(sym, ratios, income, balance, cash_flow) ==
    IF IsError(ratios) \/ IsError(income) \/ IsError(balance) \/ IsError(cash_flow)
    THEN PyDict([error |-> Lit("Could not retrieve financial data")])
    ELSE PyDict([profitability |-> PyDict(EmptyMap), valuation |-> PyDict(EmptyMap),
                 health |-> PyDict(EmptyMap), growth |-> PyDict(EmptyMap),
                 symbol |-> PyStr(sym)])

\* get_key_financials, lines 292-339
FinancialsResult(sym, ratios, income, balance, cash_flow) ==
    IF IsError(ratios) /\ IsError(income) /\ IsError(balance) /\ IsError(cash_flow)
    THEN PyDict([error |-> Lit("Could not retrieve financial data")])
    ELSE LET r == FirstOrEmpty(ratios)
             inc == FirstOrEmpty(income)
             bal == FirstOrEmpty(balance)
             cf == FirstOrEmpty(cash_flow)
         IN  PyDict([
               profitability |-> PyDict([
                   grossMargin |-> Get(r, "grossProfitMarginTTM", PyNone),
                   operatingMargin |-> Get(r, "operatingProfitMarginTTM", PyNone),
                   netMargin |-> Get(r, "netProfitMarginTTM", PyNone),
                   roe |-> Get(r, "returnOnEquityTTM", PyNone),
                   roa |-> Get(r, "returnOnAssetsTTM", PyNone)]),
               valuation |-> PyDict([
                   pe |-> Get(r, "priceEarningsRatioTTM", PyNone),
                   pb |-> Get(r, "priceToBookRatioTTM", PyNone),
                   ps |-> Get(r, "priceToSalesRatioTTM", PyNone),
                   pfcf |-> Get(r, "priceToFreeCashFlowsRatioTTM", PyNone)]),
               health |-> PyDict([
                   currentRatio |-> Get(r, "currentRatioTTM", PyNone),
                   debtToEquity |-> Get(r, "debtEquityRatioTTM", PyNone),
                   interestCoverage |-> Get(r, "interestCoverageTTM", PyNone)]),
               growth |-> PyDict([
                   revenue |-> Get(inc, "revenue", PyNone),
                   netIncome |-> Get(inc, "netIncome", PyNone),
                   totalAssets |-> Get(bal, "totalAssets", PyNone),
                   totalDebt |-> Get(bal, "totalDebt", PyNone),
                   freeCashFlow |-> Get(cf, "freeCashFlow", PyNone)]),
               symbol |-> PyStr(sym)])

\* get_news_sentiment, lines 369-376: one article of the result
NewsArticle(article) ==
    PyDict([title |-> Get(article.v, "title", Lit("No title")),
            date |-> Get(article.v, "publishedDate", Lit("Unknown date")),
            source |-> Get(article.v, "site", Lit("Unknown source")),
            url |-> Get(article.v, "url", Lit("#")),
            summary |-> Get(article.v, "text", Lit("No summary available"))])

\* get_news_sentiment, lines 361-393
NewsResult(sym, data) ==
    IF IsError(data)
    THEN PyDict([error |-> data.v.error, articles |-> PyList(<<>>), symbol |-> PyStr(sym)])
    ELSE IF IsList(data)
    THEN LET articles == [i \in 1..Len(data.v) |-> NewsArticle(data.v[i])]
         IN  PyDict([articles |-> PyList(articles),
                     count |-> PyNum(Len(articles)),
                     symbol |-> PyStr(sym)])
    ELSE PyDict([error |-> Lit("No news found"), articles |-> PyList(<<>>),
                 symbol |-> PyStr(sym)])

----------------------------------------------------------------------------
(* The public methods of the client, called one at a time *)

Fns == {"_make_request", "get_company_profile", "get_stock_quote",
        "get_key_financials", "get_news_sentiment"}

Normalizers == Fns \ {"_make_request"}

\* no method has been called yet
NoOp == [fn |-> "none", ticker |-> PyNone, sym |-> <<>>]
NoRet == [t |-> "undef"]

\* the method returns before its first request
ShortCircuits(fn, ticker) ==
    CASE fn = "_make_request" -> FALSE
      [] fn = "get_company_profile" ->
            InvalidTicker(ticker) \/ NormalizeTicker(ticker) = <<>>
      [] OTHER -> InvalidTicker(ticker)

\* what it returns then: lines 138-155, 211-212, 264-265, 352-353
ShortCircuitResult(fn, ticker) ==
    CASE fn = "get_company_profile" ->
            IF InvalidTicker(ticker) THEN ProfileInvalid ELSE ProfileEmpty
      [] fn = "get_news_sentiment" ->
            PyDict([error |-> Lit("Invalid ticker symbol"), articles |-> PyList(<<>>)])
      [] OTHER -> PyDict([error |-> Lit("Invalid ticker symbol")])

\* the number of requests a method makes once its ticker is accepted
NumRequests(fn) == IF fn = "get_key_financials" THEN 4 ELSE 1

\* the endpoint of the i-th request of o
Endpoint(o, i) ==
    CASE o.fn = "_make_request" -> <<"endpoint">>
      [] o.fn = "get_company_profile" -> <<"profile/">> \o o.sym
      [] o.fn = "get_stock_quote" -> <<"quote/">> \o o.sym
      [] o.fn = "get_news_sentiment" -> <<"stock_news">>
      [] o.fn = "get_key_financials" ->
            (CASE i = 1 -> <<"ratios-ttm/">>
               [] i = 2 -> <<"income-statement/">>
               [] i = 3 -> <<"balance-sheet-statement/">>
               [] OTHER -> <<"cash-flow-statement/">>) \o o.sym

\* the value the method returns from the values rs of its requests
Result(o, rs) ==
    CASE o.fn = "_make_request" -> rs[1]
      [] o.fn = "get_company_profile" -> ProfileResult(o.sym, rs[1])
      [] o.fn = "get_stock_quote" -> QuoteResult(o.sym, rs[1])
      [] o.fn = "get_news_sentiment" -> NewsResult(o.sym, rs[1])
      [] o.fn = "get_key_financials" ->
            FinancialsResult(o.sym, rs[1], rs[2], rs[3], rs[4])

\* a public method is called: ticker validation and normalization, up to the
\* first request
Call(fn, ticker) ==
    /\ pc = "idle"
    /\ now <= MaxTime
    /\ op' = [fn |-> fn, ticker |-> ticker,
              sym |-> IF IsStr(ticker) THEN NormalizeTicker(ticker) ELSE <<>>]
    /\ results' = <<>>
    /\ outcomes' = <<>>
    /\ sent' = 0
    /\ IF ShortCircuits(fn, ticker)
       THEN ret' = ShortCircuitResult(fn, ticker) /\ pc' = "idle"
       ELSE ret' = Pending /\ pc' = "mr_enter"
    /\ UNCHANGED <<limiterVars, now, issued, cur, wait_time, raceVars, helperVars>>

\* lines 76-125 of _make_request with outcome o of requests.get, and the
\* caller's code up to its next request or its return
Net(o) ==
    /\ pc = "mr_net"
    /\ LET data == MakeRequestResult(o, Endpoint(op, Len(results) + 1))
           rs == Append(results, data)
       IN  /\ results' = rs
           /\ outcomes' = Append(outcomes, o)
           /\ IF Len(rs) = NumRequests(op.fn)
              THEN ret' = Result(op, rs) /\ pc' = "idle"
              ELSE ret' = ret /\ pc' = "mr_enter"
    /\ UNCHANGED <<limiterVars, envVars, cur, wait_time, op, raceVars, helperVars>>

----------------------------------------------------------------------------
(* Two callers of one client: threads that share self.request_times. A      *)
(* statement is one step, except the two prunes, which read the list and     *)
(* store the filtered copy in two steps.                                     *)

\* the locals of the caller that is running
RunningCaller ==
    [pc |-> pc, cur |-> cur, wait_time |-> wait_time, op |-> op, results |-> results,
     outcomes |-> outcomes, ret |-> ret, sent |-> sent, snapshot |-> snapshot]

\* a caller that has not called yet
IdleCaller ==
    [pc |-> "idle", cur |-> 0, wait_time |-> 0, op |-> NoOp, results |-> <<>>,
     outcomes |-> <<>>, ret |-> NoRet, sent |-> 0, snapshot |-> <<>>]

\* the running caller is between the window check and the append: lines 55-73
InsideCheck == pc \in {"mr_prune", "mr_test", "mr_sleep", "mr_reprune", "mr_append"}

\* the interpreter switches to the other thread
Switch ==
    /\ pc # "idle" \/ other.pc # "idle"
    /\ other' = RunningCaller
    /\ pc' = other.pc
    /\ cur' = other.cur
    /\ wait_time' = other.wait_time
    /\ op' = other.op
    /\ results' = other.results
    /\ outcomes' = other.outcomes
    /\ ret' = other.ret
    /\ sent' = other.sent
    /\ snapshot' = other.snapshot
    /\ overlapped' = (overlapped \/ InsideCheck)
    /\ UNCHANGED <<limiterVars, now, issued, helperVars>>

\* lines 52-55: the clock is read and the comprehension reads the window
MR_EnterRead ==
    /\ pc = "mr_enter"
    /\ cur' = now
    /\ snapshot' = request_times
    /\ pc' = "mr_prune"
    /\ UNCHANGED <<limiterVars, envVars, wait_time, op, results, outcomes, ret, other,
                   overlapped, helperVars>>

\* line 55: the filtered copy is stored
MR_EnterStore ==
    /\ pc = "mr_prune"
    /\ request_times' = Prune(snapshot, cur)
    /\ pc' = "mr_test"
    /\ UNCHANGED <<max_rpm, envVars, cur, wait_time, op, results, outcomes, ret, raceVars,
                   helperVars>>

\* the sleep returns before wait_time has passed
MR_WakeReadEarly ==
    /\ pc = "mr_sleep"
    /\ cur' = now
    /\ snapshot' = request_times
    /\ pc' = "mr_reprune"
    /\ UNCHANGED <<limiterVars, envVars, wait_time, op, results, outcomes, ret, other,
                   overlapped, helperVars>>

\* lines 62-66: the sleep is over, the clock is read again and the
\* comprehension reads the window
MR_WakeRead ==
    /\ pc = "mr_sleep"
    /\ now >= cur + wait_time
    /\ cur' = now
    /\ snapshot' = request_times
    /\ pc' = "mr_reprune"
    /\ UNCHANGED <<limiterVars, envVars, wait_time, op, results, outcomes, ret, other,
                   overlapped, helperVars>>

\* line 66: the filtered copy is stored
MR_WakeStore ==
    /\ pc = "mr_reprune"
    /\ request_times' = Prune(snapshot, cur)
    /\ pc' = "mr_append"
    /\ UNCHANGED <<max_rpm, envVars, cur, wait_time, op, results, outcomes, ret, raceVars,
                   helperVars>>

----------------------------------------------------------------------------
(* Inputs: ticker arguments and outcomes of requests.get *)

TickerChars == {" ", "a"}

RECURSIVE SeqsUpTo(_, _)
SeqsUpTo(S, n) ==
    IF n = 0 THEN {<<>>}
    ELSE LET shorter == SeqsUpTo(S, n - 1)
         IN  shorter \cup {Append(q, c) : q \in shorter, c \in S}

Tickers ==
    {PyNone, PyNum(0), PyNum(5)} \cup {PyStr(q) : q \in SeqsUpTo(TickerChars, MaxTickerLen)}

Failure(k) == [kind |-> k, body |-> PyNone]
Body(b) == [kind |-> "body", body |-> b]

Failures ==
    {Failure(k) : k \in {"http", "timeout", "conn", "badjson_requests", "badjson", "other"}}

ProfileRec ==
    PyDict([companyName |-> Lit("Apple Inc."), industry |-> Lit("Consumer Electronics"),
            sector |-> Lit("Technology"), description |-> Lit("Designs phones"),
            ceo |-> Lit("Tim Cook"), website |-> Lit("https://www.apple.com"),
            fullTimeEmployees |-> PyNum(164000), exchange |-> Lit("NASDAQ"),
            mktCap |-> PyNum(3000)])
QuoteRec ==
    PyDict([price |-> PyNum(190), change |-> PyNum(2), changesPercentage |-> PyNum(1),
            dayLow |-> PyNum(188), dayHigh |-> PyNum(191), yearLow |-> PyNum(124),
            yearHigh |-> PyNum(199), marketCap |-> PyNum(3000), volume |-> PyNum(50),
            avgVolume |-> PyNum(60), pe |-> PyNum(30), eps |-> PyNum(6)])
RatiosRec ==
    PyDict([grossProfitMarginTTM |-> PyNum(44), operatingProfitMarginTTM |-> PyNum(30),
            netProfitMarginTTM |-> PyNum(25), returnOnEquityTTM |-> PyNum(150),
            returnOnAssetsTTM |-> PyNum(28), priceEarningsRatioTTM |-> PyNum(30),
            priceToBookRatioTTM |-> PyNum(45), priceToSalesRatioTTM |-> PyNum(7),
            priceToFreeCashFlowsRatioTTM |-> PyNum(27), currentRatioTTM |-> PyNum(1),
            debtEquityRatioTTM |-> PyNum(2), interestCoverageTTM |-> PyNum(29)])
IncomeRec == PyDict([revenue |-> PyNum(383), netIncome |-> PyNum(97)])
BalanceRec == PyDict([totalAssets |-> PyNum(352), totalDebt |-> PyNum(111)])
CashFlowRec == PyDict([freeCashFlow |-> PyNum(99)])
ArticleRec ==
    PyDict([title |-> Lit("Apple ships"), publishedDate |-> Lit("2025-01-02"),
            site |-> Lit("example.com"), url |-> Lit("https://example.com/a"),
            text |-> Lit("Apple shipped a phone")])
\* a record with fields missing
PartialRec == PyDict([companyName |-> Lit("Apple Inc."), price |-> PyNum(190),
                      revenue |-> PyNum(383), title |-> Lit("Apple ships")])

\* bodies the provider may answer on any endpoint
CommonBodies ==
    {PyNone, PyNum(0), PyNum(5), PyStr(<<>>), PyList(<<>>), PyDict(EmptyMap),
     PyDict("Error Message" :> Lit("Invalid API KEY.")),
     PyDict([error |-> Lit("Limit Reach")]),
     PyDict([error |-> PyStr(<<>>), note |-> Lit("x")]),
     PyDict([note |-> Lit("x")]),
     PyList(<<PyDict(EmptyMap)>>), PyList(<<PartialRec>>)}

\* the record an endpoint answers with
EndpointRec(fn, i) ==
    CASE fn = "get_company_profile" -> ProfileRec
      [] fn = "get_stock_quote" -> QuoteRec
      [] fn = "get_news_sentiment" -> ArticleRec
      [] fn = "get_key_financials" ->
            (CASE i = 1 -> RatiosRec [] i = 2 -> IncomeRec [] i = 3 -> BalanceRec
               [] OTHER -> CashFlowRec)
      [] OTHER -> ProfileRec

\* outcomes of the i-th request of method fn
Outcomes(fn, i) ==
    IF fn = "get_key_financials"
    THEN {Failure("timeout"), Body(PyDict([note |-> Lit("x")])),
          Body(PyDict([error |-> PyStr(<<>>), note |-> Lit("x")])),
          Body(PyList(<<EndpointRec(fn, i)>>))}
    ELSE Failures \cup {Body(b) : b \in CommonBodies}
         \cup {Body(PyList(<<EndpointRec(fn, i)>>)),
               Body(PyList(<<EndpointRec(fn, i), PartialRec>>))}

\* outcomes told apart by the rate limiter: none
RateOutcomes == {Failure("timeout"), Body(PyList(<<ProfileRec>>))}

----------------------------------------------------------------------------
(* json.loads, on the characters the inputs are built from: objects, arrays, *)
(* double-quoted strings with the escapes \" \\ and \/, unsigned integers,    *)
(* null, true and false; any other run of text is no JSON.                   *)

DQ == "\""
SQ == "'"
BS == "\\"
Digits == {"0", "1", "2", "3", "4", "5", "6", "7", "8", "9"}
PyBool(b) == [t |-> "bool", v |-> b]

DigitValue(c) ==
    CASE c = "0" -> 0 [] c = "1" -> 1 [] c = "2" -> 2 [] c = "3" -> 3 [] c = "4" -> 4
      [] c = "5" -> 5 [] c = "6" -> 6 [] c = "7" -> 7 [] c = "8" -> 8 [] OTHER -> 9

\* the result of a parsing step: the value and the index after it
ParseFail == [ok |-> FALSE, v |-> PyNone, i |-> 0]
ParseOk(v, i) == [ok |-> TRUE, v |-> v, i |-> i]

\* the index of the first character at or after i that is no whitespace
RECURSIVE SkipWs(_, _)
SkipWs(s, i) == IF i <= Len(s) /\ IsSpace(s[i]) THEN SkipWs(s, i + 1) ELSE i

\* the index of the first c at or after i, or 0
RECURSIVE IndexFrom(_, _, _)
IndexFrom(s, c, i) ==
    IF i > Len(s) THEN 0 ELSE IF s[i] = c THEN i ELSE IndexFrom(s, c, i + 1)

\* the characters of a string from s[i] on up to its closing quote, acc being
\* the characters read so far
RECURSIVE ParseChars(_, _, _)
ParseChars(s, i, acc) ==
    IF i > Len(s) THEN ParseFail
    ELSE IF s[i] = DQ THEN ParseOk(PyStr(acc), i + 1)
    ELSE IF s[i] = BS
    THEN IF i + 1 <= Len(s) /\ s[i + 1] \in {DQ, BS, "/"}
         THEN ParseChars(s, i + 2, Append(acc, s[i + 1]))
         ELSE ParseFail
    ELSE ParseChars(s, i + 1, Append(acc, s[i]))

\* a string read up to the next quote, escaped or not
ParseStringNoEscape(s, i) ==
    LET j == IndexFrom(s, DQ, i + 1)
    IN  IF j = 0 THEN ParseFail ELSE ParseOk(PyStr(SubSeq(s, i + 1, j - 1)), j + 1)

\* a string, s[i] being its opening quote
ParseString(s, i) == ParseChars(s, i + 1, <<>>)

\* the digits of an integer from s[i] on, n being the value read so far
RECURSIVE ParseDigits(_, _, _)
ParseDigits(s, i, n) ==
    IF i <= Len(s) /\ s[i] \in Digits
    THEN ParseDigits(s, i + 1, 10 * n + DigitValue(s[i]))
    ELSE ParseOk(PyNum(n), i)

\* an integer: 0, or digits without a leading 0
ParseNumber(s, i) ==
    IF s[i] = "0" THEN ParseOk(PyNum(0), i + 1) ELSE ParseDigits(s, i, 0)

RECURSIVE ParseValue(_, _)
RECURSIVE ParseMembers(_, _, _)
RECURSIVE ParseElements(_, _, _)

\* the members of an object from the key expected at s[i] on; a key that
\* occurs again replaces the earlier one
ParseMembers(s, i, acc) ==
    IF i > Len(s) \/ s[i] # DQ THEN ParseFail
    ELSE LET key == ParseString(s, i)
         IN  IF ~key.ok THEN ParseFail
             ELSE LET c == SkipWs(s, key.i)
                  IN  IF c > Len(s) \/ s[c] # ":" THEN ParseFail
                      ELSE LET val == ParseValue(s, SkipWs(s, c + 1))
                           IN  IF ~val.ok THEN ParseFail
                               ELSE LET d == SkipWs(s, val.i)
                                        members == (key.v.v :> val.v) @@ acc
                                    IN  IF d > Len(s) THEN ParseFail
                                        ELSE IF s[d] = "}"
                                        THEN ParseOk(PyDict(members), d + 1)
                                        ELSE IF s[d] = ","
                                        THEN ParseMembers(s, SkipWs(s, d + 1), members)
                                        ELSE ParseFail

\* the elements of an array from the value expected at s[i] on
ParseElements(s, i, acc) ==
    LET val == ParseValue(s, i)
    IN  IF ~val.ok THEN ParseFail
        ELSE LET d == SkipWs(s, val.i)
                 elements == Append(acc, val.v)
             IN  IF d > Len(s) THEN ParseFail
                 ELSE IF s[d] = "]" THEN ParseOk(PyList(elements), d + 1)
                 ELSE IF s[d] = "," THEN ParseElements(s, SkipWs(s, d + 1), elements)
                 ELSE ParseFail

\* the value that starts at s[i]
ParseValue(s, i) ==
    IF i > Len(s) THEN ParseFail
    ELSE CASE s[i] = DQ -> ParseString(s, i)
           [] s[i] = "{" ->
                 LET j == SkipWs(s, i + 1)
                 IN  IF j <= Len(s) /\ s[j] = "}"
                     THEN ParseOk(PyDict(EmptyMap), j + 1)
                     ELSE ParseMembers(s, j, EmptyMap)
           [] s[i] = "[" ->
                 LET j == SkipWs(s, i + 1)
                 IN  IF j <= Len(s) /\ s[j] = "]"
                     THEN ParseOk(PyList(<<>>), j + 1)
                     ELSE ParseElements(s, j, <<>>)
           [] s[i] = "null" -> ParseOk(PyNone, i + 1)
           [] s[i] = "true" -> ParseOk(PyBool(TRUE), i + 1)
           [] s[i] = "false" -> ParseOk(PyBool(FALSE), i + 1)
           [] s[i] \in Digits -> ParseNumber(s, i)
           [] OTHER -> ParseFail

\* json.loads(s): one value, whitespace around it and nothing else; a result
\* that is not ok stands for json.JSONDecodeError
Loads(s) ==
    LET val == ParseValue(s, SkipWs(s, 1))
    IN  IF val.ok /\ SkipWs(s, val.i) = Len(s) + 1 THEN val ELSE ParseFail

----------------------------------------------------------------------------
(* extract_json_like *)

\* the index of the last c of s, or 0
RECURSIVE LastIndex(_, _, _)
LastIndex(s, c, i) ==
    IF i = 0 THEN 0 ELSE IF s[i] = c THEN i ELSE LastIndex(s, c, i - 1)

\* re.search(r'\{.*\}', text, re.DOTALL) finds a match
HasBraceSpan(s) ==
    LET first == IndexFrom(s, "{", 1)
    IN  first # 0 /\ LastIndex(s, "}", Len(s)) > first

\* match.group(0): from the first { to the last }
BraceSpan(s) == SubSeq(s, IndexFrom(s, "{", 1), LastIndex(s, "}", Len(s)))

\* the substring with its quotes left as they are
ReplaceQuotesKeep(s) == s

\* json_str.replace("'", '"')
ReplaceQuotes(s) == [i \in 1..Len(s) |-> IF s[i] = SQ THEN DQ ELSE s[i]]

\* lines 68-81: the handler of the JSONDecodeError of the direct parse
ExtractFromSpan(s) ==
    IF HasBraceSpan(s)
    THEN LET parsed == Loads(ReplaceQuotes(BraceSpan(s)))
         IN  IF parsed.ok THEN parsed.v ELSE PyDict(EmptyMap)
    ELSE PyDict(EmptyMap)

\* extract_json_like(text), lines 61-81
ExtractJsonLike(x) ==
    IF ~Truthy(x) \/ ~IsStr(x) THEN PyDict(EmptyMap)
    ELSE LET direct == Loads(x.v)
         IN  IF direct.ok THEN direct.v ELSE ExtractFromSpan(x.v)

\* extract_json_like is applied to x, once
Extract(x) ==
    /\ text = NoRet
    /\ text' = x
    /\ out' = ExtractJsonLike(x)
    /\ UNCHANGED <<clientVars, record, aggVars, runVars, judgeVars>>

----------------------------------------------------------------------------
(* Inputs of the extractor *)

TextChars == {"{", "}", "[", "]", ":", ",", DQ, SQ, " ", "1", "a", "null"}

\* a string token in quotes q
Quoted(q, s) == <<q>> \o s \o <<q>>

KeyTexts(q) == {Quoted(q, <<"rating">>), Quoted(q, <<"a">>)}

ValueTexts(q) ==
    {Quoted(q, <<"BUY">>), Quoted(q, <<"it", SQ, "s">>), <<"1">>, <<"null">>,
     <<"[", "1", "]">>, <<"{", "}">>}

PairTexts(q) == {k \o <<":", " ">> \o v : k \in KeyTexts(q), v \in ValueTexts(q)}

\* objects of one or two members, written with quote q
ObjectTexts(q) ==
    {<<"{">> \o p \o <<"}">> : p \in PairTexts(q)}
    \cup {<<"{">> \o p1 \o <<",", " ">> \o p2 \o <<"}">> :
            p1 \in PairTexts(q), p2 \in PairTexts(q)}

Prefixes == {<<>>, <<"Here", " ", "is", " ", "the", " ", "result", ":", " ">>,
             <<"{", "x", "}", " ">>}
Suffixes == {<<>>, <<" ", "Thanks", ".">>, <<" ", "}">>}

\* an object, JSON or single-quoted pseudo-JSON, inside prose
EmbeddedTexts ==
    {pre \o obj \o suf :
        pre \in Prefixes, obj \in ObjectTexts(DQ) \cup ObjectTexts(SQ), suf \in Suffixes}

TextInputs ==
    {PyNone, PyNum(0), PyNum(5), PyList(<<>>), PyDict(EmptyMap)}
    \cup {PyStr(s) : s \in SeqsUpTo(TextChars, MaxTextLen) \cup EmbeddedTexts}

----------------------------------------------------------------------------
(* Records and their serialization (json.dumps with its default separators) *)

DigitText(d) ==
    CASE d = 0 -> "0" [] d = 1 -> "1" [] d = 2 -> "2" [] d = 3 -> "3" [] d = 4 -> "4"
      [] d = 5 -> "5" [] d = 6 -> "6" [] d = 7 -> "7" [] d = 8 -> "8" [] OTHER -> "9"

\* the decimal digits of a natural number
RECURSIVE NumText(_)
NumText(n) == IF n < 10 THEN <<DigitText(n)>> ELSE NumText(n \div 10) \o <<DigitText(n % 10)>>

\* the characters of a string with " and \ escaped
RECURSIVE Escape(_)
Escape(s) ==
    IF s = <<>> THEN <<>>
    ELSE (IF Head(s) \in {DQ, BS} THEN <<BS, Head(s)>> ELSE <<Head(s)>>) \o Escape(Tail(s))

RECURSIVE Dumps(_)
RECURSIVE DumpMembers(_, _)
RECURSIVE DumpElements(_)

\* "key": value, ... for the keys of f not written yet
DumpMembers(f, keys) ==
    IF keys = {} THEN <<>>
    ELSE LET k == CHOOSE key \in keys : TRUE
             member == <<DQ>> \o Escape(k) \o <<DQ, ":", " ">> \o Dumps(f[k])
         IN  IF keys = {k} THEN member
             ELSE member \o <<",", " ">> \o DumpMembers(f, keys \ {k})

\* value, ... for the elements of s
DumpElements(s) ==
    IF s = <<>> THEN <<>>
    ELSE IF Len(s) = 1 THEN Dumps(Head(s))
    ELSE Dumps(Head(s)) \o <<",", " ">> \o DumpElements(Tail(s))

\* json.dumps(x)
Dumps(x) ==
    CASE x.t = "none" -> <<"null">>
      [] x.t = "bool" -> IF x.v THEN <<"true">> ELSE <<"false">>
      [] x.t = "num" -> NumText(x.v)
      [] x.t = "str" -> <<DQ>> \o Escape(x.v) \o <<DQ>>
      [] x.t = "list" -> <<"[">> \o DumpElements(x.v) \o <<"]">>
      [] OTHER -> <<"{">> \o DumpMembers(x.v, DOMAIN x.v) \o <<"}">>

\* the mappings from at most MaxRecordKeys of the keys to the values
RecordsOver(keys, values) ==
    UNION {[K -> values] : K \in {S \in SUBSET keys : Cardinality(S) <= MaxRecordKeys}}

JsonKeys == {<<"rating">>, <<"it", SQ, "s">>, <<DQ, "a">>, <<BS>>}

JsonValues ==
    {PyStr(<<"it", SQ, "s">>), PyStr(<<"say", " ", DQ, "a", DQ>>),
     PyStr(<<BS, "null">>), PyStr(<<"{", "a", "}">>), PyStr(<<>>),
     PyNum(10), PyNone, PyBool(FALSE),
     PyList(<<PyNum(1), PyStr(<<DQ>>)>>),
     PyDict(<<SQ>> :> PyList(<<PyNone, PyDict(EmptyMap)>>))}

\* records with string keys and JSON values
JsonRecords == RecordsOver(JsonKeys, JsonValues)

\* extract_json_like is applied to the serialization of record r
ExtractSerialized(r) ==
    /\ text = NoRet
    /\ record' = PyDict(r)
    /\ text' = PyStr(Dumps(PyDict(r)))
    /\ out' = ExtractJsonLike(PyStr(Dumps(PyDict(r))))
    /\ UNCHANGED <<clientVars, aggVars, runVars, judgeVars>>

----------------------------------------------------------------------------
(* Single-quoted pseudo-JSON inside prose *)

\* a serialized record written with ' in place of "
SingleQuoted(s) == [i \in 1..Len(s) |-> IF s[i] = DQ THEN SQ ELSE s[i]]

PlainKeys == {<<"rating">>, <<"confidence">>, <<"a">>}

\* values without braces and quote characters
PlainValues ==
    {PyStr(<<"BUY">>), PyStr(<<"High">>), PyStr(<<>>), PyStr(<<"a", ":", " ", "1", ",">>),
     PyNum(1), PyNone, PyBool(TRUE), PyList(<<>>), PyList(<<PyStr(<<"a">>), PyNum(1)>>)}

\* records with at least one key
PlainRecords == RecordsOver(PlainKeys, PlainValues) \ {EmptyMap}

\* the record of the spec's example
C12_Record == (<<"rating">> :> PyStr(<<"BUY">>)) @@ (<<"confidence">> :> PyStr(<<"High">>))

ResultPrefix == <<"Here", " ", "is", " ", "the", " ", "result", ":", " ">>
ProsePrefixes == {<<>>, ResultPrefix, <<"[", "1", "]", " ">>}
ProseSuffixes == {<<>>, <<" ", "Thanks", ".">>}

PseudoJsonText(pre, r, suf) == PyStr(pre \o SingleQuoted(Dumps(PyDict(r))) \o suf)

\* extract_json_like is applied to prose around record r in single quotes
ExtractPseudoJson(pre, r, suf) ==
    /\ text = NoRet
    /\ record' = PyDict(r)
    /\ text' = PseudoJsonText(pre, r, suf)
    /\ out' = ExtractJsonLike(PseudoJsonText(pre, r, suf))
    /\ UNCHANGED <<clientVars, aggVars, runVars, judgeVars>>

----------------------------------------------------------------------------
(* extract_agent_outputs *)

\* the roles of the three agents (agents/*.py) and of the judge
FinancialRole == "Financial Analyst"
ProfileRole == "Company Profile Researcher"
NewsRole == "News & Sentiment Analyst"
JudgeRole == "Investment Judge"

\* an agent, and a crew result: a TaskOutput with attributes agent and output,
\* or an object with an attribute output only
Agent(role) == [role |-> role]
TaskOutput(agent, output) == [t |-> "task", agent |-> agent, output |-> output]
OutputObject(output) == [t |-> "obj", output |-> output]

\* hasattr(x, 'output')
HasOutput(x) == x.t \in {"task", "obj"}

\* the three outputs, lines 96-98
AgentOutputs(f, p, n) == [financial |-> f, profile |-> p, news |-> n]
NoOutputs == AgentOutputs(PyDict(EmptyMap), PyDict(EmptyMap), PyDict(EmptyMap))

\* lines 104-114: the loop over a list of results from element s[1] on; an
\* element whose agent has no role ends the loop in the handler of line 160
RECURSIVE FromTaskList(_, _)
FromTaskList(s, acc) ==
    IF s = <<>> THEN acc
    ELSE LET result == Head(s)
         IN  IF result.t # "task" THEN FromTaskList(Tail(s), acc)
             ELSE IF "role" \notin DOMAIN result.agent THEN acc
             ELSE LET agent_role == result.agent.role
                      parsed == ExtractJsonLike(result.output)
                  IN  FromTaskList(Tail(s),
                        IF agent_role = ProfileRole THEN [acc EXCEPT !.profile = parsed]
                        ELSE IF agent_role = FinancialRole THEN [acc EXCEPT !.financial = parsed]
                        ELSE IF agent_role = NewsRole THEN [acc EXCEPT !.news = parsed]
                        ELSE acc)

\* the headings of the combined text, in the letter cases of re.IGNORECASE
FinancialHeadings == {"Financial Analysis", "financial analysis", "FINANCIAL ANALYSIS"}
ProfileHeadings == {"Profile Analysis", "profile analysis", "PROFILE ANALYSIS"}
NewsHeadings == {"News Analysis", "news analysis", "NEWS ANALYSIS"}
HeadingSeparators == {":", "\n"}

\* the index of the first heading at or after i that [:\n] follows, or 0
RECURSIVE FindHeading(_, _, _)
FindHeading(s, headings, i) ==
    IF i >= Len(s) THEN 0
    ELSE IF s[i] \in headings /\ s[i + 1] \in HeadingSeparators THEN i
    ELSE FindHeading(s, headings, i + 1)

\* the index after the run [:\n]+ that starts at i
RECURSIVE SkipSeparators(_, _)
SkipSeparators(s, i) ==
    IF i <= Len(s) /\ s[i] \in HeadingSeparators THEN SkipSeparators(s, i + 1) ELSE i

\* the first index at or after i where (?=<stops>|$) holds: at one of the
\* other headings, at the end of the text or at its final newline
RECURSIVE RegionEnd(_, _, _)
RegionEnd(s, stops, i) ==
    IF i > Len(s) \/ s[i] \in stops \/ (i = Len(s) /\ s[i] = "\n") THEN i
    ELSE RegionEnd(s, stops, i + 1)

\* re.search(r'<heading>[:\n]+(.*?)(?=<stops>|$)', s) finds a match
HasSection(s, headings) == FindHeading(s, headings, 1) # 0

\* group(1) of that match
Section(s, headings, stops) ==
    LET start == SkipSeparators(s, FindHeading(s, headings, 1) + 1)
    IN  SubSeq(s, start, RegionEnd(s, stops, start) - 1)

\* extract_json_like of the section of a heading, when there is one
SectionOutput(s, headings, stops) ==
    IF HasSection(s, headings)
    THEN ExtractJsonLike(PyStr(Section(s, headings, stops)))
    ELSE PyDict(EmptyMap)

\* the heading scan made whether or not the whole output parses
FromOutputObjectAlwaysScan(output_text) ==
    IF ~IsStr(output_text) THEN NoOutputs
    ELSE AgentOutputs(
           SectionOutput(output_text.v, FinancialHeadings, ProfileHeadings \cup NewsHeadings),
           SectionOutput(output_text.v, ProfileHeadings, FinancialHeadings \cup NewsHeadings),
           SectionOutput(output_text.v, NewsHeadings, FinancialHeadings \cup ProfileHeadings))

\* lines 118-139: an object with an output; a parsed whole is assigned to no
\* output, and re.search on an output that is no str ends in the handler of
\* line 160
FromOutputObject(output_text) ==
    IF Truthy(ExtractJsonLike(output_text)) \/ ~IsStr(output_text) THEN NoOutputs
    ELSE AgentOutputs(
           SectionOutput(output_text.v, FinancialHeadings, ProfileHeadings \cup NewsHeadings),
           SectionOutput(output_text.v, ProfileHeadings, FinancialHeadings \cup NewsHeadings),
           SectionOutput(output_text.v, NewsHeadings, FinancialHeadings \cup ProfileHeadings))

\* re.findall(r'\{.*?\}', s, re.DOTALL) from index i on: from a { to the first }
\* after it, then on from there
RECURSIVE Fragments(_, _)
Fragments(s, i) ==
    LET open == IndexFrom(s, "{", i)
        close == IF open = 0 THEN 0 ELSE IndexFrom(s, "}", open + 1)
    IN  IF close = 0 THEN <<>>
        ELSE <<SubSeq(s, open, close)>> \o Fragments(s, close + 1)

\* any(key in data for key in keys)
AnyKey(data, keys) == \E key \in keys : <<key>> \in DOMAIN data.v

\* the loop keeping the first fragment of a category in place of the last
RECURSIVE FromFragmentsFirstWins(_, _)
FromFragmentsFirstWins(json_objects, acc) ==
    IF json_objects = <<>> THEN acc
    ELSE LET data == Loads(ReplaceQuotes(Head(json_objects)))
         IN  FromFragmentsFirstWins(Tail(json_objects),
               IF ~data.ok THEN acc
               ELSE IF AnyKey(data.v, {"financial_health", "key_metrics"})
               THEN (IF Truthy(acc.financial) THEN acc ELSE [acc EXCEPT !.financial = data.v])
               ELSE IF AnyKey(data.v, {"business_outlook", "industry_position"})
               THEN (IF Truthy(acc.profile) THEN acc ELSE [acc EXCEPT !.profile = data.v])
               ELSE IF AnyKey(data.v, {"sentiment", "news_summary"})
               THEN (IF Truthy(acc.news) THEN acc ELSE [acc EXCEPT !.news = data.v])
               ELSE acc)

\* lines 147-159: the loop over the fragments
RECURSIVE FromFragments(_, _)
FromFragments(json_objects, acc) ==
    IF json_objects = <<>> THEN acc
    ELSE LET data == Loads(ReplaceQuotes(Head(json_objects)))
         IN  FromFragments(Tail(json_objects),
               IF ~data.ok THEN acc
               ELSE IF AnyKey(data.v, {"financial_health", "key_metrics"})
               THEN [acc EXCEPT !.financial = data.v]
               ELSE IF AnyKey(data.v, {"business_outlook", "industry_position"})
               THEN [acc EXCEPT !.profile = data.v]
               ELSE IF AnyKey(data.v, {"sentiment", "news_summary"})
               THEN [acc EXCEPT !.news = data.v]
               ELSE acc)

\* extract_agent_outputs(results, ...), lines 96-168
ExtractAgentOutputs(results_arg) ==
    IF IsList(results_arg) THEN FromTaskList(results_arg.v, NoOutputs)
    ELSE IF HasOutput(results_arg) THEN FromOutputObject(results_arg.output)
    ELSE IF IsStr(results_arg) THEN FromFragments(Fragments(results_arg.v, 1), NoOutputs)
    ELSE NoOutputs

\* extract_agent_outputs is applied to results, once; expected holds the
\* records the argument was written from, if any
ExtractOutputs(results_arg, expected) ==
    /\ agent_results = NoRet
    /\ agent_results' = results_arg
    /\ agent_outputs' = ExtractAgentOutputs(results_arg)
    /\ record' = expected
    /\ UNCHANGED <<clientVars, text, out, runVars, judgeVars>>

----------------------------------------------------------------------------
(* Inputs of extract_agent_outputs *)

Str(chunk) == PyStr(<<chunk>>)

\* records of the three categories, by their signature keys
FinancialRecords ==
    {<<"financial_health">> :> Str("Strong"),
     <<"key_metrics">> :> Str("none"),
     (<<"financial_health">> :> Str("Weak")) @@
        (<<"key_metrics">> :> PyDict(<<"pe_ratio">> :> PyNum(15)))}
ProfileRecords ==
    {<<"business_outlook">> :> Str("Positive"),
     <<"industry_position">> :> Str("Leader")}
NewsRecords ==
    {<<"sentiment">> :> Str("Positive"),
     <<"news_summary">> :> Str("up"),
     <<"news_summary">> :> PyStr(<<"It", SQ, "s", " ", "up">>)}

\* a record as the agents write it: JSON, or JSON with ' for "
Written(q, r) == IF q = DQ THEN Dumps(PyDict(r)) ELSE SingleQuoted(Dumps(PyDict(r)))

\* the texts a task output may hold
TaskTexts ==
    {PyStr(Written(DQ, r)) : r \in FinancialRecords \cup ProfileRecords \cup NewsRecords}
    \cup {PseudoJsonText(ResultPrefix, C, <<>>) : C \in {<<"rating">> :> Str("BUY")}}
    \cup {PyStr(<<"[", "1", "]">>), PyStr(<<"no", " ", "data">>), PyNone}

\* the elements of a list of results
ResultElements ==
    {TaskOutput(Agent(role), o) :
        role \in {FinancialRole, ProfileRole, NewsRole, JudgeRole}, o \in TaskTexts}
    \cup {TaskOutput(PyNone, Str("x")), OutputObject(Str("x")), PyNone, Str("x")}

ResultLists == {PyList(s) : s \in SeqsUpTo(ResultElements, MaxResults)}

\* the sections of a combined text: a heading, separators or none, a body
SectionBodies ==
    {Written(DQ, <<"financial_health">> :> Str("Strong")) \o <<"\n">>,
     Written(SQ, <<"sentiment">> :> Str("Positive")),
     <<"1">>}
SectionTexts ==
    {<<h>> \o sep \o body :
        h \in {"Financial Analysis", "profile analysis", "NEWS ANALYSIS"},
        sep \in {<<":">>, <<":", "\n">>, <<" ">>},
        body \in SectionBodies}

RECURSIVE Concat(_)
Concat(parts) == IF parts = <<>> THEN <<>> ELSE Head(parts) \o Concat(Tail(parts))

CombinedTexts ==
    {PyStr(Concat(parts)) : parts \in SeqsUpTo(SectionTexts, MaxResults)}
    \cup {PyStr(Written(DQ, r)) : r \in FinancialRecords}
    \cup {PyStr(<<"Financial Analysis", ":">> \o Written(DQ, r)) : r \in FinancialRecords}
    \cup {PyStr(<<"News Analysis", ":", "no", " ", "data", "\n">>),
          PyStr(<<"News Analysis", ":">>),
          PyStr(<<"0">>), PyStr(<<"[", "1", "]">>), PyNone, PyNum(5), PyDict(EmptyMap)}

ResultObjects ==
    {OutputObject(o) : o \in CombinedTexts}
    \cup {TaskOutput(Agent(FinancialRole), o) : o \in TaskTexts}

\* the orders of three things
Orders3 == {<<1, 2, 3>>, <<1, 3, 2>>, <<2, 1, 3>>, <<2, 3, 1>>, <<3, 1, 2>>, <<3, 2, 1>>}

\* a string of three fragments in order o, one per category, with prose
\* between them
ThreeFragments(q, o, f, p, n) ==
    LET frags == <<Written(q, f), Written(q, p), Written(q, n)>>
    IN  PyStr(<<"Results", ":", " ">> \o frags[o[1]] \o <<"\n", "and", " ">>
              \o frags[o[2]] \o <<" ">> \o frags[o[3]] \o <<".">>)

\* the three headings in one letter case
HeadingsIn(c) ==
    CASE c = 1 -> <<"Financial Analysis", "Profile Analysis", "News Analysis">>
      [] c = 2 -> <<"financial analysis", "profile analysis", "news analysis">>
      [] OTHER -> <<"FINANCIAL ANALYSIS", "PROFILE ANALYSIS", "NEWS ANALYSIS">>

\* what follows a heading
AfterHeading == {<<":">>, <<":", "\n">>, <<"\n">>, <<" ", "-", " ">>}

\* records that can be written with ' for ": no apostrophe in them
Writable(q, records) ==
    IF q = DQ THEN records
    ELSE {r \in records : \A k \in DOMAIN r : IsStr(r[k]) => SQ \notin {r[k].v[i] : i \in DOMAIN r[k].v}}

\* a combined text of three sections in order o, one per category: each a
\* heading in the letter case cs gives it, what follows it, and a record
SectionedText(q, o, cs, seps, f, p, n) ==
    LET sections ==
            <<<<HeadingsIn(cs[1])[1]>> \o seps[1] \o Written(q, f),
              <<HeadingsIn(cs[2])[2]>> \o seps[2] \o Written(q, p),
              <<HeadingsIn(cs[3])[3]>> \o seps[3] \o Written(q, n)>>
    IN  PyStr(<<"Report", "\n">> \o sections[o[1]] \o <<"\n">> \o sections[o[2]]
              \o <<"\n", "\n">> \o sections[o[3]])

LetterCases == {<<1, 1, 1>>, <<2, 3, 1>>, <<3, 2, 2>>}

\* the pieces plain strings are built from
StringPieces ==
    {Written(q, r) : q \in {DQ, SQ}, r \in FinancialRecords \cup NewsRecords}
    \cup {Written(DQ, (<<"sentiment">> :> Str("Positive")) @@ (<<"key_metrics">> :> Str("none"))),
          Written(SQ, (<<"sentiment">> :> Str("Negative")) @@ (<<"business_outlook">> :> Str("Positive"))),
          Written(DQ, <<"a">> :> PyNum(1)),
          <<"{">>, <<"}">>, <<"{", "}">>, <<" ", "x", " ">>}

ResultStrings == {PyStr(Concat(parts)) : parts \in SeqsUpTo(StringPieces, MaxResults)}

ResultOthers == {PyNone, PyNum(5), PyBool(TRUE), PyDict(EmptyMap)}

----------------------------------------------------------------------------
(* process_judge_output (judge/investment_judge.py) *)

\* str(x) of a crew result, kept as the result it was made from
StrOfResult(x) == [t |-> "str", of |-> x]

\* str(x) of a result that is no list with elements, no object with an output
\* and no str; a dict of strings and numbers is written with ' around strings
ReprOf(x) ==
    CASE x.t = "none" -> <<"None">>
      [] x.t = "bool" -> IF x.v THEN <<"True">> ELSE <<"False">>
      [] x.t = "dict" -> SingleQuoted(Dumps(x))
      [] OTHER -> Dumps(x)

\* lines 51-76: the judge output taken from the result
JudgeOutput(results_arg) ==
    IF IsList(results_arg) /\ Len(results_arg.v) > 0
    THEN IF HasOutput(results_arg.v[1]) THEN results_arg.v[1].output ELSE PyNone
    ELSE IF HasOutput(results_arg) THEN results_arg.output
    ELSE IF IsStr(results_arg) THEN results_arg
    ELSE PyStr(ReprOf(results_arg))

\* lines 81-93: judge_json; a result that is not ok stands for the
\* json.JSONDecodeError handled at line 124
JudgeJson(judge_output) ==
    IF IsStr(judge_output)
    THEN IF HasBraceSpan(judge_output.v) THEN Loads(BraceSpan(judge_output.v))
         ELSE Loads(judge_output.v)
    ELSE ParseOk(IF IsDict(judge_output) THEN judge_output
                 ELSE PyDict(<<"error">> :> Str("Unable to parse output")), 0)

\* lines 124-128: the raw judge output under "Raw Investment Analysis"
Unparsed(judge_output) == [kind |-> "unparsed", raw |-> judge_output]

\* lines 130-134: str(judge_results) under "Raw Investment Judge Output"
Failed(results_arg) == [kind |-> "error", raw |-> StrOfResult(results_arg)]

\* lines 96-122: the rating, the confidence, the justification and the JSON
Structured(judge_json) ==
    [kind |-> "structured",
     rating |-> Get(judge_json.v, <<"rating">>, Str("N/A")),
     confidence |-> Get(judge_json.v, <<"confidence">>, Str("Medium")),
     justification |-> Get(judge_json.v, <<"justification">>, Str("No justification provided.")),
     json |-> judge_json]

\* process_judge_output(judge_results): what is presented; .get on a value
\* that is no dict (line 96) and .upper() on a rating that is no str (line 105)
\* raise AttributeError, handled at line 130
ProcessJudgeOutput(results_arg) ==
    LET judge_output == JudgeOutput(results_arg)
        judge_json == JudgeJson(judge_output)
    IN  IF ~judge_json.ok THEN Unparsed(judge_output)
        ELSE IF ~IsDict(judge_json.v) THEN Failed(results_arg)
        ELSE IF ~IsStr(Structured(judge_json.v).rating) THEN Failed(results_arg)
        ELSE Structured(judge_json.v)

\* process_judge_output is applied to a judge result, once
ProcessJudge(results_arg) ==
    /\ judge_results = NoRet
    /\ judge_results' = results_arg
    /\ judge_display' = ProcessJudgeOutput(results_arg)
    /\ UNCHANGED <<clientVars, textVars, aggVars, runVars>>

----------------------------------------------------------------------------
(* Inputs of process_judge_output *)

\* a judgment as the judge prompt asks for it
JudgmentRecord ==
    (<<"rating">> :> Str("BUY")) @@ (<<"confidence">> :> Str("High"))
    @@ (<<"justification">> :> Str("Sound."))

\* judge texts that hold a judgment or something like one
JudgmentTexts ==
    {PyStr(Written(q, JudgmentRecord) \o suf) : q \in {DQ, SQ}, suf \in ProseSuffixes}
    \cup {PseudoJsonText(ResultPrefix, C12_Record, <<>>),
          PyStr(Written(DQ, <<"rating">> :> PyNum(4))),
          PyStr(Written(DQ, <<"rating">> :> Str("HOLD"))),
          PyStr(Written(DQ, <<"rating">> :> PyStr(<<"it", SQ, "s">>)) \o <<" ", "Thanks", ".">>),
          PyStr(Written(DQ, <<"a">> :> PyNum(1)) \o <<" ">> \o Written(DQ, <<"a">> :> PyNum(1))),
          PyStr(<<"no", " ", "data">>), PyStr(<<"[", "1", "]">>), PyStr(<<"1">>),
          PyStr(<<"{", "}">>), PyStr(<<>>)}

JudgeTexts == JudgmentTexts \cup {PyStr(s) : s \in SeqsUpTo(TextChars, MaxTextLen)}

JudgeResultShapes ==
    JudgeTexts
    \cup {OutputObject(x) : x \in JudgmentTexts}
    \cup {PyList(<<TaskOutput(Agent(JudgeRole), x)>>) : x \in JudgmentTexts}
    \cup {PyList(<<>>), PyList(<<Str("x")>>), PyList(<<PyNone>>),
          PyList(<<TaskOutput(Agent(JudgeRole), PyDict(JudgmentRecord))>>),
          OutputObject(PyNone), OutputObject(PyNum(5)), OutputObject(PyDict(JudgmentRecord)),
          OutputObject(PyDict(<<"rating">> :> PyNum(4))),
          PyNone, PyNum(5), PyBool(TRUE), PyDict(JudgmentRecord), PyDict(EmptyMap)}

----------------------------------------------------------------------------
(* run_company_analysis (analysis.py) *)

NoRun == [ticker |-> PyNone]

\* lines 52-56: the temperatures of a run
DefaultTemps(depth) ==
    IF depth = "deep" THEN [financial |-> 3, profile |-> 5, news |-> 7]
    ELSE [financial |-> 2, profile |-> 3, news |-> 5]

\* the config echoed by both reports, lines 314-319 and 335-340
ConfigOf(r) ==
    [model |-> r.model, depth |-> r.depth, process_type |-> r.process_type,
     investment_style |-> r.investment_style]

\* lines 331-341: the report of the except clause for an exception of text e
ErrorReport(r, e, time) ==
    [ticker |-> r.ticker,
     error |-> PyStr(<<"Analysis failed: ", e>>),
     execution_time |-> time - r.start_time,
     config |-> ConfigOf(r)]

\* the results package with an error key of None
SuccessReportWithError(r, time, tokens) ==
    [ticker |-> r.ticker,
     profile_analysis |-> r.analyses.profile,
     financial_analysis |-> r.analyses.financial,
     news_analysis |-> r.analyses.news,
     investment_recommendation |-> r.judge_results,
     error |-> PyNone,
     execution_time |-> time - r.start_time,
     token_usage |-> tokens,
     config |-> ConfigOf(r),
     raw_outputs |-> [initial_results |-> StrOfResult(r.initial_results),
                      judge_results |-> StrOfResult(r.judge_results)]]

\* lines 306-324: the complete results package
SuccessReport(r, time, tokens) ==
    [ticker |-> r.ticker,
     profile_analysis |-> r.analyses.profile,
     financial_analysis |-> r.analyses.financial,
     news_analysis |-> r.analyses.news,
     investment_recommendation |-> r.judge_results,
     execution_time |-> time - r.start_time,
     token_usage |-> tokens,
     config |-> ConfigOf(r),
     raw_outputs |-> [initial_results |-> StrOfResult(r.initial_results),
                      judge_results |-> StrOfResult(r.judge_results)]]

\* judge/investment_judge.py lines 11-41: what the prompt is built from
JudgePrompt(investment_style, ticker, financial, profile, news) ==
    [investment_style |-> investment_style, ticker |-> ticker,
     financial |-> financial, profile |-> profile, news |-> news]

\* lines 48-56: the run starts
RunStart(ticker, model, depth, process_type, temps, investment_style, rpm, api_key) ==
    /\ stage = "none"
    /\ stage' = "INIT"
    /\ run' = [ticker |-> ticker, model |-> model, depth |-> depth,
               process_type |-> process_type,
               temps |-> IF temps = PyNone THEN DefaultTemps(depth) ELSE temps,
               investment_style |-> investment_style, max_rpm |-> rpm,
               api_key |-> api_key, start_time |-> now,
               initial_results |-> NoRet, analyses |-> NoRet,
               judge_prompt |-> NoRet, judge_results |-> NoRet]
    /\ trace' = <<"INIT">>
    /\ UNCHANGED <<clientVars, textVars, aggVars, judgeVars, report>>

\* an exception of text e that leaves run_company_analysis
RunFailsReraise(e) ==
    /\ stage' = "FAILED"
    /\ report' = PyRaise(e)
    /\ UNCHANGED <<clientVars, textVars, aggVars, judgeVars, run, trace>>

\* lines 326-341: an exception of text e raised in the try block
RunFails(e) ==
    /\ stage' = "FAILED"
    /\ report' = ErrorReport(run, e, now)
    /\ UNCHANGED <<clientVars, textVars, aggVars, judgeVars, run, trace>>

\* a stage completes
RunAdvances(next, updated) ==
    /\ stage' = next
    /\ run' = updated
    /\ trace' = Append(trace, next)
    /\ UNCHANGED <<clientVars, textVars, aggVars, judgeVars, report>>

\* the client constructed without a check of the API key
ClientReadyWithoutKey(raises) ==
    /\ stage = "INIT"
    /\ IF raises THEN RunFails("Tool")
       ELSE RunAdvances("RATE_LIMITED_CLIENT_READY", run)

\* lines 59-93: FMPTool(max_rpm=max_rpm), which raises ValueError without an
\* API key (fmp_tool.py lines 23-25), and the four Tool objects
ClientReady(raises) ==
    /\ stage = "INIT"
    /\ IF ~run.api_key THEN RunFails("FMP API key is required")
       ELSE IF raises THEN RunFails("Tool")
       ELSE RunAdvances("RATE_LIMITED_CLIENT_READY", run)

\* lines 96-256: the agents, with temps[...] for each, the task descriptions,
\* the tasks, process_type.lower() and the crew
TasksDefined(raises) ==
    /\ stage = "RATE_LIMITED_CLIENT_READY"
    /\ IF ~({"financial", "profile", "news"} \subseteq DOMAIN run.temps)
       THEN RunFails("KeyError")
       ELSE IF raises THEN RunFails("Agent")
       ELSE IF ~IsStr(run.process_type) THEN RunFails("AttributeError")
       ELSE RunAdvances("TASKS_DEFINED", run)

\* line 260: initial_crew.kickoff()
TasksExecuted(raises, crew_results) ==
    /\ stage = "TASKS_DEFINED"
    /\ IF raises THEN RunFails("kickoff")
       ELSE RunAdvances("TASKS_EXECUTED", [run EXCEPT !.initial_results = crew_results])

\* the run aborted when extraction yields no record at all
RunOutputsExtractedOrAbort ==
    /\ stage = "TASKS_EXECUTED"
    /\ IF ExtractAgentOutputs(run.initial_results) = NoOutputs
       THEN RunFails("No data")
       ELSE RunAdvances("OUTPUTS_EXTRACTED",
                        [run EXCEPT !.analyses = ExtractAgentOutputs(run.initial_results)])

\* lines 264-267: extract_agent_outputs
RunOutputsExtracted ==
    /\ stage = "TASKS_EXECUTED"
    /\ RunAdvances("OUTPUTS_EXTRACTED",
                   [run EXCEPT !.analyses = ExtractAgentOutputs(run.initial_results)])

\* the judge prompted with the crew's raw results in place of the extracted records
JudgedOnRawResults(raises, crew_results) ==
    /\ stage = "OUTPUTS_EXTRACTED"
    /\ IF raises THEN RunFails("judge")
       ELSE RunAdvances("JUDGED",
              [run EXCEPT !.judge_prompt =
                              JudgePrompt(run.investment_style, run.ticker,
                                          run.initial_results, run.initial_results,
                                          run.initial_results),
                          !.judge_results = crew_results])

\* lines 271-295: the judge agent, its prompt, task and crew, and its kickoff
Judged(raises, crew_results) ==
    /\ stage = "OUTPUTS_EXTRACTED"
    /\ IF raises THEN RunFails("judge")
       ELSE RunAdvances("JUDGED",
              [run EXCEPT !.judge_prompt =
                              JudgePrompt(run.investment_style, run.ticker,
                                          run.analyses.financial, run.analyses.profile,
                                          run.analyses.news),
                          !.judge_results = crew_results])

\* the report with the judge's output parsed into investment_recommendation
ReportAssembledParsed(raises, tokens) ==
    /\ stage = "JUDGED"
    /\ IF raises THEN RunFails("count_tokens")
       ELSE /\ stage' = "REPORT_ASSEMBLED"
            /\ trace' = Append(trace, "REPORT_ASSEMBLED")
            /\ report' = [SuccessReport(run, now, tokens) EXCEPT
                             !.investment_recommendation =
                                 PyDict([rating |-> Str("N/A"), confidence |-> Str("Medium"),
                                         justification |-> Str("No justification provided.")])]
            /\ UNCHANGED <<clientVars, textVars, aggVars, judgeVars, run>>

\* lines 299-324: the elapsed time, the token estimate (count_tokens may raise)
\* and the returned report
ReportAssembled(raises, tokens) ==
    /\ stage = "JUDGED"
    /\ IF raises THEN RunFails("count_tokens")
       ELSE /\ stage' = "REPORT_ASSEMBLED"
            /\ trace' = Append(trace, "REPORT_ASSEMBLED")
            /\ report' = SuccessReport(run, now, tokens)
            /\ UNCHANGED <<clientVars, textVars, aggVars, judgeVars, run>>

\* the clock advances during a run
RunTick ==
    /\ stage \notin {"none", "FAILED", "REPORT_ASSEMBLED"}
    /\ Tick(MaxGap)

----------------------------------------------------------------------------
(* Inputs of run_company_analysis: the caller's arguments, the environment *)
(* and what the crews return                                               *)

Models == {"gpt-3.5-turbo", "gpt-4"}
Depths == {"quick", "deep"}
ProcessTypes == {Str("sequential"), Str("Hierarchical"), PyNone}
TempsArguments == {PyNone, [financial |-> 1, profile |-> 1, news |-> 1], [financial |-> 1]}
InvestmentStyles == {"Balanced", "News Hound"}

\* what initial_crew.kickoff() returns
RunCrewResults ==
    {PyList(<<TaskOutput(Agent(FinancialRole),
                         PyStr(Written(DQ, <<"financial_health">> :> Str("Strong")))),
              TaskOutput(Agent(NewsRole), Str("no data"))>>),
     PyList(<<TaskOutput(Agent(FinancialRole),
                         PyStr(Written(DQ, <<"financial_health">> :> Str("Strong")))),
              TaskOutput(Agent(ProfileRole),
                         PyStr(Written(DQ, <<"business_outlook">> :> Str("Positive"))))>>),
     OutputObject(PyStr(<<"Profile Analysis", ":">>
                        \o Written(SQ, <<"business_outlook">> :> Str("Positive")))),
     PyStr(Written(DQ, <<"sentiment">> :> Str("Positive"))),
     PyNone}

\* what judge_crew.kickoff() returns
RunJudgeResults ==
    {PyList(<<TaskOutput(Agent(JudgeRole), PyStr(Written(DQ, JudgmentRecord)))>>),
     OutputObject(PyStr(Written(DQ, JudgmentRecord) \o <<" ", "Thanks", ".">>)),
     PyStr(Written(SQ, JudgmentRecord)),
     PyNone}

\* what count_tokens adds up to
TokenCounts == {0, 7}

----------------------------------------------------------------------------
(* Specifications *)

Init ==
    /\ max_rpm \in 0..MaxRpm
    /\ request_times = <<>>
    /\ now = 0
    /\ issued = <<>>
    /\ sent = 0
    /\ pc = "idle"
    /\ cur = 0
    /\ wait_time = 0
    /\ op = NoOp
    /\ results = <<>>
    /\ outcomes = <<>>
    /\ ret = NoRet
    /\ snapshot = <<>>
    /\ other = IdleCaller
    /\ overlapped = FALSE
    /\ text = NoRet
    /\ out = NoRet
    /\ record = NoRet
    /\ agent_results = NoRet
    /\ agent_outputs = NoRet
    /\ stage = "none"
    /\ run = NoRun
    /\ report = NoRet
    /\ trace = <<>>
    /\ judge_results = NoRet
    /\ judge_display = NoRet

MR_Step ==
    \/ MR_Enter
    \/ MR_TestRaise
    \/ MR_TestWait
    \/ MR_TestPass
    \/ MR_Wake
    \/ MR_Append

\* the rate limiter under direct calls of _make_request, with any gaps
\* between and during the calls
NextRate ==
    \/ Call("_make_request", PyNone)
    \/ MR_Step
    \/ \E o \in RateOutcomes : Net(o)
    \/ \E k \in 1..MaxGap : Tick(k)

SpecRate == Init /\ [][NextRate]_vars

\* the same, with the scheduling of the one thread: a step that can be taken
\* is taken, and the clock keeps advancing
FairSpecRate ==
    /\ SpecRate
    /\ WF_vars(MR_Step)
    /\ WF_vars(\E o \in RateOutcomes : Net(o))
    /\ WF_vars(\E k \in 1..MaxGap : Tick(k))

\* the normalizers over every ticker and outcome; time passes, MaxGap steps
\* at once, while the caller sleeps in the rate limiter
NextNorm ==
    \/ \E fn \in Fns, ticker \in Tickers : Call(fn, ticker)
    \/ MR_Step
    \/ \E o \in Outcomes(op.fn, Len(results) + 1) : Net(o)
    \/ Sleeping /\ Tick(MaxGap)

SpecNorm == Init /\ [][NextNorm]_vars

\* two callers of _make_request on one client, switched at any step; time
\* passes MaxGap steps at once
MR_StepShared ==
    \/ MR_EnterRead
    \/ MR_EnterStore
    \/ MR_TestRaise
    \/ MR_TestWait
    \/ MR_TestPass
    \/ MR_WakeRead
    \/ MR_WakeStore
    \/ MR_Append

\* the calls the two callers have started that have not recorded their request
Unrecorded ==
    (IF pc \in {"idle", "mr_net"} THEN 0 ELSE 1)
    + (IF other.pc \in {"idle", "mr_net"} THEN 0 ELSE 1)

NextShared ==
    \/ Len(issued) + Unrecorded < MaxCalls /\ Call("_make_request", PyNone)
    \/ MR_StepShared
    \/ Net(Body(PyList(<<ProfileRec>>)))
    \/ Tick(MaxGap)
    \/ Switch

SpecShared == Init /\ [][NextShared]_vars

\* the extractor applied to every input text
InitText == Init /\ max_rpm = MaxRpm

NextText ==
    \/ text = NoRet /\ \E x \in TextInputs : Extract(x)
    \/ text = NoRet /\ \E r \in JsonRecords : ExtractSerialized(r)
    \/ text = NoRet /\ \E pre \in ProsePrefixes, r \in PlainRecords, suf \in ProseSuffixes :
          ExtractPseudoJson(pre, r, suf)

SpecText == InitText /\ [][NextText]_vars

\* extract_agent_outputs applied to every shape of results
NextAgg ==
    \/ agent_results = NoRet /\
          \E x \in ResultLists \cup ResultObjects \cup ResultStrings \cup ResultOthers :
             ExtractOutputs(x, NoRet)
    \/ agent_results = NoRet /\
          \E q \in {DQ, SQ}, o \in Orders3, f \in FinancialRecords, p \in ProfileRecords,
             n \in NewsRecords :
          ExtractOutputs(ThreeFragments(q, o, f, p, n),
                         AgentOutputs(PyDict(f), PyDict(p), PyDict(n)))
    \/ agent_results = NoRet /\
          \E q \in {DQ, SQ}, o \in Orders3, cs \in LetterCases,
             seps \in [1..3 -> AfterHeading] :
             \E f \in Writable(q, FinancialRecords), p \in ProfileRecords,
                n \in Writable(q, NewsRecords) :
                ExtractOutputs(OutputObject(SectionedText(q, o, cs, seps, f, p, n)),
                               AgentOutputs(PyDict(f), PyDict(p), PyDict(n)))

SpecAgg == InitText /\ [][NextAgg]_vars

\* one run of run_company_analysis for every argument, with every stage
\* succeeding or raising
NextRun ==
    \/ \E model \in Models, depth \in Depths, process_type \in ProcessTypes,
          temps \in TempsArguments, investment_style \in InvestmentStyles,
          api_key \in BOOLEAN :
          RunStart(Str("AAPL"), model, depth, process_type, temps, investment_style,
                   MaxRpm, api_key)
    \/ \E raises \in BOOLEAN : ClientReady(raises)
    \/ \E raises \in BOOLEAN : TasksDefined(raises)
    \/ \E raises \in BOOLEAN, crew_results \in RunCrewResults :
          TasksExecuted(raises, crew_results)
    \/ RunOutputsExtracted
    \/ \E raises \in BOOLEAN, crew_results \in RunJudgeResults : Judged(raises, crew_results)
    \/ \E raises \in BOOLEAN, tokens \in TokenCounts : ReportAssembled(raises, tokens)
    \/ RunTick

SpecRun == InitText /\ [][NextRun]_vars

\* process_judge_output applied to every shape of judge result
NextJudge == judge_results = NoRet /\ \E x \in JudgeResultShapes : ProcessJudge(x)

SpecJudge == InitText /\ [][NextJudge]_vars

----------------------------------------------------------------------------
(* Claims about the rate limiter *)

\* the requests whose recorded timestamp lies in (t - 60, t]
InWindow(t) == {i \in DOMAIN issued : t - WINDOW < issued[i] /\ issued[i] <= t}

\* C1: with max_rpm = N >= 1 and one caller at a time, at most N recorded
\* request timestamps lie in any interval (t - 60, t].
C1_AtMostNPerWindow ==
    max_rpm >= 1 => \A t \in 0..now : Cardinality(InWindow(t)) <= max_rpm

\* a call found the window full, waited, and its request was recorded
C1_Witness ==
    /\ max_rpm >= 1
    /\ Len(issued) > max_rpm
    /\ wait_time > 0
    /\ \E t \in 0..now : Cardinality(InWindow(t)) = max_rpm

\* the (N+1)th request is not recorded before the N-th before it is 60 s old
Delayed ==
    max_rpm >= 1 =>
        \A i \in DOMAIN issued :
            i > max_rpm => issued[i] >= issued[i - max_rpm] + WINDOW

\* a finished call of _make_request has recorded and issued its one request
NotDropped ==
    (max_rpm >= 1 /\ op.fn = "_make_request" /\ pc = "idle") =>
        sent = 1 /\ Len(results) = 1 /\ ~Raised(ret)

\* C2: with max_rpm = N >= 1 the call that finds N requests younger than 60 s
\* issues its request only once the oldest of them is 60 s old, and every call
\* eventually issues its request and returns: none is dropped or rejected.
C2_DelayedNeverDropped ==
    /\ []Delayed
    /\ []NotDropped
    /\ (max_rpm >= 1 /\ pc = "mr_enter") ~> (pc = "idle" /\ sent = 1)

\* the (N+1)th call within 60 s has waited and returned
C2_Witness ==
    /\ max_rpm >= 1
    /\ pc = "idle"
    /\ sent = 1
    /\ wait_time > 0
    /\ Len(issued) = max_rpm + 1
    /\ issued[max_rpm] - issued[1] < WINDOW
    /\ issued[max_rpm + 1] - issued[1] >= WINDOW

\* the body is non-empty and carries no error field
Succeeds(o) ==
    /\ o.kind = "body"
    /\ Truthy(o.body)
    /\ IsDict(o.body) => DOMAIN o.body.v \cap {"Error Message", "error"} = {}

\* C3: _make_request never raises, for every constructed client: it returns
\* the payload of a successful call and a mapping with an 'error' key otherwise.
C3_NeverRaises ==
    /\ ~Raised(ret)
    /\ (op.fn = "_make_request" /\ pc = "idle") =>
          IF Succeeds(outcomes[1]) THEN ret = outcomes[1].body ELSE IsError(ret)

----------------------------------------------------------------------------
(* Claims about the normalizers *)

\* the ticker of op is a string that is non-empty once trimmed and uppercased
ValidTicker == IsStr(op.ticker) /\ op.sym # <<>>

\* a normalizer has returned a value
Returned(fn) == op.fn = fn /\ pc = "idle" /\ ~Raised(ret)

\* C4: for every ticker that is non-empty after trimming and uppercasing, each
\* normalizer returns a mapping with the key 'symbol', also when every request fails.
C4_SymbolAlways ==
    \A fn \in Normalizers :
        (Returned(fn) /\ ValidTicker) => HasKey(ret, "symbol")

\* C5: a ticker that is not a string, is empty, or is empty after trimming
\* short-circuits every normalizer: an error record is returned and no request
\* is made, so the window is not touched.
C5_InvalidTickerShortCircuits ==
    (op.fn \in Normalizers /\ ~ValidTicker) =>
        pc = "idle" /\ IsError(ret) /\ sent = 0

Sections == {"profitability", "valuation", "health", "growth"}

\* C6: get_key_financials returns a record with an 'error' key exactly when all
\* four sub-requests returned an error value; as soon as one succeeded it
\* returns the four sections and no 'error' key.
C6_OnlyTotalFailureIsError ==
    (Returned("get_key_financials") /\ Len(results) = 4) =>
        /\ HasKey(ret, "error") <=> \A i \in 1..4 : IsError(results[i])
        /\ (\E i \in 1..4 : ~IsError(results[i])) =>
               Sections \subseteq DOMAIN ret.v /\ ~HasKey(ret, "error")

\* one sub-request failed, another succeeded, and the record is no error
C6_Witness ==
    /\ Returned("get_key_financials")
    /\ Len(results) = 4
    /\ IsError(results[2])
    /\ ~IsError(results[4])
    /\ ~HasKey(ret, "error")

\* every metric of a section is None
AllNone(section) == \A k \in DOMAIN section.v : section.v[k] = PyNone

\* the sub-request succeeded with a one-element list
OneElementList(i) ==
    outcomes[i].kind = "body" /\ IsList(outcomes[i].body) /\ Len(outcomes[i].body.v) = 1

C8_EmptyNewsIsValid ==
    (/\ Returned("get_news_sentiment")
     /\ ValidTicker
     /\ Len(outcomes) = 1
     /\ outcomes[1] = Body(PyList(<<>>))) =>
        ret = PyDict([articles |-> PyList(<<>>), count |-> PyNum(0),
                      symbol |-> PyStr(op.sym)])

----------------------------------------------------------------------------
(* Claims about the extractor *)

\* extract_json_like has been applied
Extracted == text # NoRet

\* the text is a non-empty string that does not parse strictly as a whole
NotDirect == IsStr(text) /\ Truthy(text) /\ ~Loads(text.v).ok

\* the substring from the first { to the last } parses strictly
SpanParsesStrictly == HasBraceSpan(text.v) /\ Loads(BraceSpan(text.v)).ok

\* the same substring parses once its single quotes are replaced
SpanParsesReplaced == HasBraceSpan(text.v) /\ Loads(ReplaceQuotes(BraceSpan(text.v))).ok

\* no tier parses the text into a record
NoTierParses ==
    \/ ~IsStr(text)
    \/ ~Truthy(text)
    \/ NotDirect /\ ~SpanParsesStrictly /\ ~SpanParsesReplaced

\* C9: extract_json_like never raises and always returns a mapping, the empty
\* mapping when no tier parses the text; never a list, number or string.
C9_AlwaysMapping ==
    Extracted =>
        /\ IsDict(out)
        /\ NoTierParses => out = PyDict(EmptyMap)

\* C10: the tiers apply in order: when the whole text does not parse but the
\* substring from the first { to the last } parses strictly, the result is that
\* strict parse, single quotes inside its string values unchanged.
C10_TiersInOrder ==
    (Extracted /\ NotDirect /\ SpanParsesStrictly) =>
        out = Loads(BraceSpan(text.v)).v

\* the text is the serialization of the record
Serialized == record # NoRet /\ text = PyStr(Dumps(record))

\* C11: extract_json_like is a left inverse of serialization: applied to the
\* serialization of a record with string keys and JSON values it returns the
\* record.
C11_LeftInverseOfSerialize == Serialized => out = record

\* a record whose serialization needs escapes has been extracted
C11_Witness ==
    /\ Serialized
    /\ out = record
    /\ <<DQ, "a">> \in DOMAIN record.v
    /\ \E k \in DOMAIN record.v : record.v[k] = PyStr(<<"it", SQ, "s">>)

\* the text is prose around the record written in single quotes
PseudoJsonInProse ==
    /\ record # NoRet
    /\ \E pre \in ProsePrefixes, suf \in ProseSuffixes :
          text = PseudoJsonText(pre, record.v, suf)

\* C12: applied to prose that contains one single-quoted pseudo-JSON object
\* and no other brace or quote character, extract_json_like returns the record
\* the object denotes.
C12_PseudoJsonInProse == PseudoJsonInProse => out = record

C12_Example == C12_Record

\* "Here is the result: {'rating': 'BUY', 'confidence': 'High'}" has been
\* extracted
C12_Witness ==
    /\ text = PseudoJsonText(ResultPrefix, C12_Example, <<>>)
    /\ record = PyDict(C12_Example)
    /\ out = PyDict(C12_Example)

----------------------------------------------------------------------------
(* Claims about extract_agent_outputs *)

\* extract_agent_outputs has returned
OutputsExtracted == agent_outputs # NoRet

\* the roles of the tasks of a list of results that have an agent and an output
RolesIn(s) == {s[i].agent.role : i \in {j \in 1..Len(s) : s[j].t = "task" /\ s[j].agent # PyNone}}

\* C13: extract_agent_outputs never raises and returns three mappings for
\* every shape of results; a category no record was found for is the empty
\* mapping.
C13_ThreeMappings ==
    OutputsExtracted =>
        /\ IsDict(agent_outputs.financial)
        /\ IsDict(agent_outputs.profile)
        /\ IsDict(agent_outputs.news)
        /\ agent_results \in ResultOthers => agent_outputs = NoOutputs
        /\ IsList(agent_results) =>
              /\ FinancialRole \notin RolesIn(agent_results.v) =>
                    agent_outputs.financial = PyDict(EmptyMap)
              /\ ProfileRole \notin RolesIn(agent_results.v) =>
                    agent_outputs.profile = PyDict(EmptyMap)
              /\ NewsRole \notin RolesIn(agent_results.v) =>
                    agent_outputs.news = PyDict(EmptyMap)

\* the argument is a string of three fragments, one per category
StringOfThree == OutputsExtracted /\ IsStr(agent_results) /\ record # NoRet

\* C14: on a plain string of three disjoint brace-delimited fragments, one per
\* signature, extract_agent_outputs returns each fragment's record in its
\* category, whatever the order of the fragments.
C14_ThreeFragmentsRouted == StringOfThree => agent_outputs = record

----------------------------------------------------------------------------
(* Claims about run_company_analysis *)

SuccessKeys ==
    {"ticker", "profile_analysis", "financial_analysis", "news_analysis",
     "investment_recommendation", "execution_time", "token_usage", "config",
     "raw_outputs"}
FailureKeys == {"ticker", "error", "execution_time", "config"}

\* the run is over
Returned2 == stage \in {"FAILED", "REPORT_ASSEMBLED"}

\* a step of the run raised: the run ended before the report was assembled
StepRaised == Returned2 /\ trace[Len(trace)] # "REPORT_ASSEMBLED"

\* C15: run_company_analysis never raises: a failure at any step is returned
\* as an error Report with the ticker, an 'error' message, the elapsed
\* execution_time and the caller's model, depth, process_type and
\* investment_style in 'config'.
C15_RunNeverRaises ==
    /\ ~("t" \in DOMAIN report /\ Raised(report))
    /\ Returned2 <=> report # NoRet
    /\ StepRaised =>
          /\ report.ticker = run.ticker
          /\ IsStr(report.error)
          /\ report.execution_time = now - run.start_time
          /\ report.execution_time >= 0
          /\ report.config.model = run.model
          /\ report.config.depth = run.depth
          /\ report.config.process_type = run.process_type
          /\ report.config.investment_style = run.investment_style

\* the judge crew raised after time had passed
C15_Witness ==
    /\ stage = "FAILED"
    /\ trace[Len(trace)] = "OUTPUTS_EXTRACTED"
    /\ report.error = PyStr(<<"Analysis failed: ", "judge">>)
    /\ report.execution_time > 0

\* C16: every Report has the success key set or the failure key set; 'error'
\* is present if and only if a step of the run raised, and never together with
\* an analysis or recommendation field.
C16_ReportShapes ==
    Returned2 =>
        /\ DOMAIN report \in {SuccessKeys, FailureKeys}
        /\ "error" \in DOMAIN report <=> StepRaised
        /\ "error" \in DOMAIN report =>
              DOMAIN report \cap {"profile_analysis", "financial_analysis", "news_analysis",
                                  "investment_recommendation"} = {}

\* a run has returned the success shape
C16_Witness == stage = "REPORT_ASSEMBLED" /\ DOMAIN report = SuccessKeys

\* the run succeeded
RunSucceeded == stage = "REPORT_ASSEMBLED"

----------------------------------------------------------------------------
(* Claims about process_judge_output *)

\* process_judge_output has returned
JudgeProcessed == judge_display # NoRet

\* the normalized judge output is a text
JudgeTextProcessed == JudgeProcessed /\ IsStr(JudgeOutput(judge_results))

\* C18: process_judge_output extracts the judgment with the tiers of
\* extract_json_like: the record it obtains from a judge text is
\* extract_json_like(text), and single-quoted pseudo-JSON inside prose is
\* presented as a structured judgment, not as unstructured text.
C18_SameTiersAsExtractor ==
    JudgeTextProcessed =>
        LET judge_output == JudgeOutput(judge_results)
            judge_json == JudgeJson(judge_output)
            extracted == ExtractJsonLike(judge_output)
        IN  /\ judge_json.ok => judge_json.v = extracted
            /\ Truthy(extracted) => judge_json.ok
            /\ judge_output = PseudoJsonText(ResultPrefix, C12_Record, <<>>) =>
                  judge_display.kind = "structured"

\* a record was extracted from the judge output
RecordExtracted ==
    LET judge_output == JudgeOutput(judge_results)
    IN  \/ IsDict(judge_output)
        \/ IsStr(judge_output) /\ JudgeJson(judge_output).ok
             /\ IsDict(JudgeJson(judge_output).v)

\* C19: process_judge_output never raises and ends in one of two outcomes for
\* every shape of judge result: a record was extracted and its rating,
\* confidence and justification are presented, with the defaults for missing
\* fields; or no record was extracted and the raw text is presented, without
\* rating, confidence or justification.
C19_TwoOutcomes ==
    JudgeProcessed =>
        /\ judge_display.kind \in {"structured", "unparsed", "error"}
        /\ RecordExtracted =>
              /\ judge_display.kind = "structured"
              /\ judge_display.rating = Get(judge_display.json.v, <<"rating">>, Str("N/A"))
              /\ judge_display.confidence =
                    Get(judge_display.json.v, <<"confidence">>, Str("Medium"))
              /\ judge_display.justification =
                    Get(judge_display.json.v, <<"justification">>,
                        Str("No justification provided."))
        /\ ~RecordExtracted =>
              /\ judge_display.kind \in {"unparsed", "error"}
              /\ DOMAIN judge_display = {"kind", "raw"}

----------------------------------------------------------------------------
(* The RequestWindow *)

\* a call of _make_request has returned
CallReturned == pc = "idle" /\ issued # <<>>

\* C20: for max_rpm = N >= 1, serialized calls and a non-decreasing clock:
\* after a _make_request call returns, request_times has at most N entries in
\* non-decreasing order, each less than 60 seconds older than the last one
\* recorded; and the wait branch is entered with a non-empty window only.
C20_RequestWindowInvariant ==
    max_rpm >= 1 =>
        /\ CallReturned =>
              /\ Len(request_times) <= max_rpm
              /\ \A i, j \in DOMAIN request_times :
                    i < j => request_times[i] <= request_times[j]
              /\ \A i \in DOMAIN request_times :
                    request_times[Len(request_times)] - request_times[i] < WINDOW
        /\ pc = "mr_sleep" => request_times # <<>>
        /\ ret # PyRaise("IndexError")

\* a call waited for the full window and returned, older entries pruned
C20_Witness ==
    /\ max_rpm >= 1
    /\ CallReturned
    /\ wait_time > 0
    /\ Len(request_times) = max_rpm
    /\ Len(issued) > max_rpm

----------------------------------------------------------------------------
(* Claims about the budget of the rate limiter *)

\* the calls of _make_request that have ended, by returning or by raising
EndedRequests == Len(results) + (IF pc = "idle" /\ Raised(ret) THEN 1 ELSE 0)

\* C21: every _make_request call appends exactly one timestamp to the window,
\* before the network call is issued, so that a call counts against the budget
\* whatever its outcome: while the network call is in flight the timestamp is
\* the last entry of the window, and every call that has ended has one.
C21_OneTimestampPerCall ==
    /\ sent = EndedRequests + (IF pc = "mr_net" THEN 1 ELSE 0)
    /\ pc = "mr_net" =>
          request_times # <<>> /\ request_times[Len(request_times)] = cur

\* the caller leaves the window test with the window full
LeavesTestFull == pc = "mr_test" /\ LimitReached /\ pc' # pc

\* the caller leaves time.sleep
LeavesSleep == pc = "mr_sleep" /\ pc' # pc

\* C22: when the pruned window holds at least max_rpm entries, the call blocks
\* once, for 60 - (now - oldest entry) seconds, more than 0 and at most 60; after
\* the wait and the second prune the window holds fewer than max_rpm entries,
\* and the timestamp recorded is the time read after the wait.
C22_BlocksOnceThenRecords ==
    [][/\ LeavesTestFull =>
             /\ pc' = "mr_sleep"
             /\ wait_time' = WINDOW - (cur - request_times[1])
             /\ wait_time' > 0 /\ wait_time' <= WINDOW
       /\ LeavesSleep =>
             /\ pc' = "mr_append"
             /\ now >= cur + wait_time
             /\ cur' = now
             /\ Len(request_times') < max_rpm
       /\ (pc = "mr_append" /\ pc' # pc) =>
             pc' = "mr_net" /\ issued' = Append(issued, cur)]_vars

----------------------------------------------------------------------------
(* Claims about the stages of a run *)

\* the stages of a run, in the order of the code
StageOrder ==
    <<"INIT", "RATE_LIMITED_CLIENT_READY", "TASKS_DEFINED", "TASKS_EXECUTED",
      "OUTPUTS_EXTRACTED", "JUDGED", "REPORT_ASSEMBLED">>

\* the completed stages are the first stages of the order, each once
InOrder == Len(trace) <= Len(StageOrder) /\ trace = SubSeq(StageOrder, 1, Len(trace))

\* the judge has run only on the records extract_agent_outputs returned
JudgeAfterExtraction ==
    (stage # "none" /\ run.judge_results # NoRet) =>
        /\ \E i \in DOMAIN trace : trace[i] = "OUTPUTS_EXTRACTED"
        /\ run.analyses = ExtractAgentOutputs(run.initial_results)
        /\ run.judge_prompt.financial = run.analyses.financial
        /\ run.judge_prompt.profile = run.analyses.profile
        /\ run.judge_prompt.news = run.analyses.news

\* a step that raises completes no stage and returns the error Report, and
\* nothing is executed once the run has returned
StopsWhenRaised ==
    /\ (stage # "FAILED" /\ stage' = "FAILED") =>
          trace' = trace /\ run' = run /\ DOMAIN report' = FailureKeys
    /\ Returned2 => UNCHANGED runVars

\* C23: a run passes through its stages in the order client ready, tasks
\* defined, crew executed, outputs extracted, judge executed, report assembled,
\* none skipped or repeated; the judge runs after extract_agent_outputs has
\* returned, prompted with the three extracted records; and when a stage
\* raises no later stage is executed and the run ends with the error Report.
C23_StagesInOrder ==
    /\ [](InOrder /\ JudgeAfterExtraction)
    /\ [][StopsWhenRaised]_vars

\* a run has passed through every stage, its judge prompted with an extracted record
C23_Witness ==
    /\ stage = "REPORT_ASSEMBLED"
    /\ trace = StageOrder
    /\ run.judge_prompt.financial = run.analyses.financial
    /\ Truthy(run.analyses.financial)
    /\ run.analyses.financial # run.initial_results

\* the categories for which extract_agent_outputs yielded the empty mapping
EmptyCategories ==
    {c \in {"financial", "profile", "news"} : run.analyses[c] = PyDict(EmptyMap)}

\* extraction has yielded at least one empty mapping
ExtractionFailed == stage # "none" /\ run.analyses # NoRet /\ EmptyCategories # {}

\* the steps after the extraction that raised, by the text of their exception
LaterFailures == {PyStr(<<"Analysis failed: ", e>>) : e \in {"judge", "count_tokens"}}

\* C24: extraction failure never aborts a run: no run fails in the extraction
\* step, a run with one, two or three empty categories fails only when a later
\* step raises, and otherwise the judge is executed and the success-shape
\* Report is returned, its empty categories empty mappings, without 'error'.
C24_ExtractionNeverAborts ==
    /\ stage = "FAILED" => trace[Len(trace)] # "TASKS_EXECUTED"
    /\ (ExtractionFailed /\ stage = "FAILED") => report.error \in LaterFailures
    /\ (ExtractionFailed /\ stage = "REPORT_ASSEMBLED") =>
          /\ run.judge_results # NoRet
          /\ DOMAIN report = SuccessKeys
          /\ "error" \notin DOMAIN report
          /\ "financial" \in EmptyCategories => report.financial_analysis = PyDict(EmptyMap)
          /\ "profile" \in EmptyCategories => report.profile_analysis = PyDict(EmptyMap)
          /\ "news" \in EmptyCategories => report.news_analysis = PyDict(EmptyMap)

\* a run succeeded with no record extracted for any category
C24_Witness ==
    /\ stage = "REPORT_ASSEMBLED"
    /\ EmptyCategories = {"financial", "profile", "news"}
    /\ report.financial_analysis = PyDict(EmptyMap)
    /\ run.judge_results # NoRet
    /\ "error" \notin DOMAIN report

----------------------------------------------------------------------------
(* Claims about the dispatch of extract_agent_outputs *)

\* the argument is an object whose output holds the three headings, each with
\* the record of its category, and does not parse as one record
ThreeSections ==
    /\ OutputsExtracted
    /\ agent_results.t = "obj"
    /\ record # NoRet
    /\ ~Truthy(ExtractJsonLike(agent_results.output))

\* C25: for a single output object whose text does not parse as one record
\* and contains the three headings, in any order and letter case, the record
\* of each heading's region, which ends at the next heading or at the end of
\* the text, is returned in that heading's category.
C25_RegionsByHeading == ThreeSections => agent_outputs = record

----------------------------------------------------------------------------
(* Claims about two callers of one client *)

\* the entries of a list of timestamps that are less than 60 s old
Young(times) == Len(SelectSeq(times, LAMBDA t : now - t < WINDOW))

\* more than max_rpm requests have been recorded within 60 seconds
Overshoot == \E t \in 0..now : Cardinality(InWindow(t)) > max_rpm

\* a timestamp recorded less than 60 s ago is missing from the window
TimestampLost == Young(request_times) < Young(issued)

\* C26: the rate limiter relies on one caller at a time: with two callers
\* interleaved between the window check and the append, more than max_rpm
\* requests are issued within 60 seconds or a recorded timestamp is lost; as
\* long as no caller is preempted there, neither happens.
C26_SingleCallerAssumption == (Overshoot \/ TimestampLost) => overlapped

\* two callers passed the window test together and both issued their request
C26_Witness ==
    /\ overlapped
    /\ max_rpm >= 1
    /\ Overshoot
    /\ Len(issued) = max_rpm + 1

----------------------------------------------------------------------------
(* Claims about the sub-requests of get_key_financials *)

\* the endpoints of the four sub-requests, in the order of lines 273-288
FinancialEndpoints ==
    <<"ratios-ttm/", "income-statement/", "balance-sheet-statement/", "cash-flow-statement/">>

\* a call of get_key_financials with a valid ticker has ended
FinancialsEnded == op.fn = "get_key_financials" /\ ValidTicker /\ pc = "idle"

\* C27: get_key_financials for a valid ticker issues exactly four
\* sub-requests, ratios, income statement, balance sheet and cash flow in this
\* order, whatever the earlier ones returned, each recorded in the window;
\* with max_rpm < 4 the call waits on the window and completes all four.
C27_FourSubRequests ==
    FinancialsEnded =>
        /\ ~Raised(ret)
        /\ sent = 4
        /\ Len(results) = 4
        /\ \A i \in 1..4 :
              outcomes[i] = Failure("timeout") =>
                  results[i] = ErrorDict(<<"Request to ", FinancialEndpoints[i]>> \o op.sym
                                         \o <<" timed out after 10 seconds">>)
        /\ max_rpm < 4 =>
              /\ wait_time > 0
              /\ issued[Len(issued)] >= issued[Len(issued) - 3] + WINDOW

----------------------------------------------------------------------------
(* Claims about a combined text that parses as a whole *)

\* the argument has an output from which extract_json_like yields a
\* non-empty record
WholeOutputParses ==
    /\ OutputsExtracted
    /\ HasOutput(agent_results)
    /\ IsDict(ExtractJsonLike(agent_results.output))
    /\ Truthy(ExtractJsonLike(agent_results.output))

\* C28: for a single output object whose text yields a non-empty record from
\* extract_json_like, the heading scan is skipped and the record is assigned
\* to no category: the three returned mappings are empty, also for a text of
\* one heading followed by one valid record.
C28_ParsedWholeIsDropped == WholeOutputParses => agent_outputs = NoOutputs

\* the output is the financial heading followed by a financial record
C28_Witness ==
    /\ WholeOutputParses
    /\ agent_results.output =
          PyStr(<<"Financial Analysis", ":">>
                \o Written(DQ, <<"financial_health">> :> Str("Strong")))
    /\ agent_outputs = NoOutputs

----------------------------------------------------------------------------
(* Claims about the plain-string dispatch *)

\* the records of the fragments of a string that parse, in their order
ParsedFragments(s) ==
    LET parsed == [i \in DOMAIN Fragments(s, 1) |->
                      Loads(ReplaceQuotes(Fragments(s, 1)[i]))]
    IN  SelectSeq(parsed, LAMBDA d : d.ok)

\* the one category of a record: the first signature one of its keys is in
Category(d) ==
    IF DOMAIN d.v \cap {<<"financial_health">>, <<"key_metrics">>} # {} THEN "financial"
    ELSE IF DOMAIN d.v \cap {<<"business_outlook">>, <<"industry_position">>} # {}
    THEN "profile"
    ELSE IF DOMAIN d.v \cap {<<"sentiment">>, <<"news_summary">>} # {} THEN "news"
    ELSE "none"

\* the last record of category c among the parsed fragments, or the empty mapping
LastOf(parsed, c) ==
    LET matching == {i \in DOMAIN parsed : Category(parsed[i].v) = c}
    IN  IF matching = {} THEN PyDict(EmptyMap)
        ELSE parsed[CHOOSE i \in matching : \A j \in matching : j <= i].v

\* C29: in the plain-string dispatch each parsed fragment is routed to at most
\* one category, financial before profile before news when it has keys of more
\* than one signature; a fragment with no signature key changes no category;
\* and of several fragments of one category the last in the string is returned.
C29_FragmentRouting ==
    (OutputsExtracted /\ IsStr(agent_results)) =>
        \A c \in {"financial", "profile", "news"} :
            agent_outputs[c] = LastOf(ParsedFragments(agent_results.v), c)

\* a string of a record with keys of two signatures and a later record of
\* the first of them: the later one is returned, the other category is empty
C29_Witness ==
    /\ OutputsExtracted
    /\ IsStr(agent_results)
    /\ Len(ParsedFragments(agent_results.v)) = 2
    /\ {<<"sentiment">>, <<"key_metrics">>}
          \subseteq DOMAIN ParsedFragments(agent_results.v)[1].v.v
    /\ agent_outputs.financial = PyDict(<<"financial_health">> :> Str("Strong"))
    /\ agent_outputs.news = PyDict(EmptyMap)

----------------------------------------------------------------------------
(* Claims about a run without an API key *)

\* a run was started with no FMP_API_KEY in the environment and has left INIT
RanWithoutKey == stage \notin {"none", "INIT"} /\ ~run.api_key

\* C30: FMPTool() with no api_key argument and no FMP_API_KEY raises
\* ValueError and no client exists; run_company_analysis catches it and
\* returns the error Report, having created no agent, executed no task and
\* issued no provider request.
C30_NoKeyNoRun ==
    RanWithoutKey =>
        /\ stage = "FAILED"
        /\ trace = <<"INIT">>
        /\ DOMAIN report = FailureKeys
        /\ report.error = PyStr(<<"Analysis failed: ", "FMP API key is required">>)
        /\ run.initial_results = NoRet
        /\ run.judge_results = NoRet
        /\ issued = <<>> /\ request_times = <<>> /\ op = NoOp

\* a run without a key has returned the error Report
C30_Witness ==
    /\ RanWithoutKey
    /\ stage = "FAILED"
    /\ report.error = PyStr(<<"Analysis failed: ", "FMP API key is required">>)
    /\ report.ticker = run.ticker

====
